---------------------------- MODULE Spec2Model ----------------------------
(***************************************************************************)
(* ia-sandbox: the launch-and-supervise pipeline of spawn_jail and         *)
(* JailHandle::wait (src/src/lib.rs) over the Config of src/src/config.rs. *)
(*                                                                         *)
(* Three process generations per jail: the caller, the supervisor (outer   *)
(* clone) and the sandboxed child (inner clone).  The closures of lib.rs   *)
(* are modelled as the sequences of calls they make; one action executes   *)
(* the next call of a process.  The primitives of ffi / cgroups / run_info *)
(* that lib.rs calls are modelled from their contracts.                    *)
(***************************************************************************)
EXTENDS Integers, Sequences, FiniteSets, TLC

\* ------------------------------------------------------------------ bounds
MaxMounts == 2        \* bind mounts a Config may list
MaxExit   == 2        \* largest exit code a program returns
MaxCpu    == 2        \* largest cpuacct.usage a run accumulates
MaxMem    == 2        \* largest memory.max_usage_in_bytes a run reaches
MaxCount  == 2        \* largest small multiple of a unit that is formatted

\* ------------------------------------------------------- program constants
STDIN   == 0
STDOUT  == 1
STDERR  == 2
SIGKILL == 9
SIGSEGV == 11
SIGTERM == 15

\* --------------------------------------------------------------- data model
None    == <<>>
Some(x) == <<x>>
IsSome(o) == Len(o) = 1
Unwrap(o) == o[1]

Ok(x)  == [tag |-> "Ok", val |-> x, err |-> <<>>]
Err(e) == [tag |-> "Err", val |-> <<>>, err |-> e]
IsOk(r)  == r.tag = "Ok"
IsErr(r) == r.tag = "Err"

Unit == <<"()">>

FFIError(op)   == <<"FFIError", op>>
ChildError(e)  == <<"ChildError">> \o e
SupervisorProcessDiedError == <<"SupervisorProcessDiedError">>

Jails   == {1, 2}
Handles == {"sup", "inner"}
Procs   == Jails \X Handles
Sup(j)   == <<j, "sup">>
Inner(j) == <<j, "inner">>

FifoNames == {"fifoA", "fifoB"}
IsFifo(path) == path \in FifoNames

\* impl Default for Limits: every dimension unlimited
LimitsDefault ==
  [wall_time |-> None, user_time |-> None, memory |-> None,
   stack |-> None, pids |-> None]


\* ------------------------------------------------------------ the closures
\* A call of a closure: <<operation, argument>>; the argument is the standard
\* slot of a redirect, the mount of a mount_inside, and 0 otherwise.
Call(op, arg) == <<op, arg>>

\* Config::redirect_* by standard slot
RedirectPath(c, slot) ==
  IF slot = STDIN THEN c.redirect_stdin
  ELSE IF slot = STDOUT THEN c.redirect_stdout
  ELSE c.redirect_stderr

\* `if let Some(path) = config.redirect_x() { ffi::redirect_fd(X, path)?; }`
RedirectIfSome(c, slot) ==
  IF IsSome(RedirectPath(c, slot)) THEN <<Call("redirect_fd", slot)>> ELSE <<>>

\* Redirects with the swap flag ignored: stdin always first
RedirectsNoSwap(c) ==
  RedirectIfSome(c, STDIN) \o RedirectIfSome(c, STDOUT) \o RedirectIfSome(c, STDERR)

\* Redirects with the second stdout redirect not guarded by the swap flag
RedirectsStdoutTwice(c) ==
     (IF c.swap_redirects = "Yes" THEN RedirectIfSome(c, STDOUT) ELSE <<>>)
  \o RedirectIfSome(c, STDIN)
  \o RedirectIfSome(c, STDOUT)
  \o RedirectIfSome(c, STDERR)

\* lib.rs 84-102: the redirects of the inner closure, in the order it makes them
Redirects(c) ==
     (IF c.swap_redirects = "Yes" THEN RedirectIfSome(c, STDOUT) ELSE <<>>)
  \o RedirectIfSome(c, STDIN)
  \o (IF c.swap_redirects = "No" THEN RedirectIfSome(c, STDOUT) ELSE <<>>)
  \o RedirectIfSome(c, STDERR)

\* ffi::pivot_root(new_root, between): bind new_root, pivot, chdir("/"), run
\* `between`, then detach and remove the old root
pivot_root(between) ==
  <<Call("pivot_root", 0)>> \o between \o <<Call("umount_old_root", 0)>>

\* lib.rs 118-131: bind mounts and pivot_root under new_root, else mount_proc
EnterRoot(c) ==
  IF IsSome(c.new_root)
    THEN [i \in 1..Len(c.mounts) |-> Call("mount_inside", c.mounts[i])]
         \o pivot_root(<<Call("mount_proc", 0)>>)
    ELSE <<Call("mount_proc", 0)>>

\* The inner closure with the cgroup join moved after the cgroup unshare
InnerBodyLateCgroups(c) ==
     Redirects(c)
  \o <<Call("set_stack_limit", 0),
       Call("unshare_cgroup", 0),
       Call("enter_all_cgroups", 0),
       Call("remount_private", 0)>>
  \o EnterRoot(c)
  \o <<Call("set_uid_gid_maps", 0)>>
  \o (IF c.interactive = "No"
        THEN <<Call("move_to_different_process_group", 0)>> ELSE <<>>)
  \o <<Call("exec_command", 0)>>

\* The inner closure without the cgroup join
InnerBodyNoCgroups(c) ==
     Redirects(c)
  \o <<Call("set_stack_limit", 0),
       Call("unshare_cgroup", 0),
       Call("remount_private", 0)>>
  \o EnterRoot(c)
  \o <<Call("set_uid_gid_maps", 0)>>
  \o (IF c.interactive = "No"
        THEN <<Call("move_to_different_process_group", 0)>> ELSE <<>>)
  \o <<Call("exec_command", 0)>>

\* The closure of the inner clone ending without the exec
InnerBodyNoExec(c) ==
     Redirects(c)
  \o <<Call("set_stack_limit", 0),
       Call("enter_all_cgroups", 0),
       Call("unshare_cgroup", 0),
       Call("remount_private", 0)>>
  \o EnterRoot(c)
  \o <<Call("set_uid_gid_maps", 0)>>
  \o (IF c.interactive = "No"
        THEN <<Call("move_to_different_process_group", 0)>> ELSE <<>>)

\* The closure of the inner clone without the private remount
InnerBodyNoRemount(c) ==
     Redirects(c)
  \o <<Call("set_stack_limit", 0),
       Call("enter_all_cgroups", 0),
       Call("unshare_cgroup", 0)>>
  \o EnterRoot(c)
  \o <<Call("set_uid_gid_maps", 0)>>
  \o (IF c.interactive = "No"
        THEN <<Call("move_to_different_process_group", 0)>> ELSE <<>>)
  \o <<Call("exec_command", 0)>>

\* lib.rs 83-150: the closure of the inner clone
InnerBody(c) ==
     Redirects(c)
  \o <<Call("set_stack_limit", 0),
       Call("enter_all_cgroups", 0),
       Call("unshare_cgroup", 0),
       Call("remount_private", 0)>>
  \o EnterRoot(c)
  \o <<Call("set_uid_gid_maps", 0)>>
  \o (IF c.interactive = "No"
        THEN <<Call("move_to_different_process_group", 0)>> ELSE <<>>)
  \o <<Call("exec_command", 0)>>

\* lib.rs 76-83: the supervisor's setup before the inner clone
SupervisorSetup ==
  <<Call("kill_on_parent_death", 0),
    Call("mount_proc", 0),
    Call("set_uid_gid_maps", 1)>>     \* 1: the caller's ids, 0: root

\* The supervisor's wait given no limits
SupervisorWaitUnlimited(c) == LimitsDefault

\* lib.rs 150: the limits the supervisor's wait on the child enforces
SupervisorWaitLimits(c) == c.limits

\* The caller's wait given the Config's limits
CallerWaitConfigLimits(c) == c.limits

\* lib.rs 178: the limits the caller's wait on the supervisor enforces
CallerWaitLimits(c) == LimitsDefault

\* ------------------------------------------------------ results and verdicts
RunUsageDefault == [user_time |-> 0, memory |-> 0]

\* RunInfo<T>: a verdict (with its exit code or signal), the payload of the
\* Success branch, and the usage
RunInfo(verdict, n, val, usage) ==
  [verdict |-> verdict, n |-> n, val |-> val, usage |-> usage]

\* RunInfo::success
success(ri) == IF ri.verdict = "Success" THEN Some(ri.val) ELSE None

\* The result pipe holds nothing, the length prefix of a record alone, or one
\* complete record; reading it yields the record if it is complete
\* (`deserialize_from(pipe).ok()`)
Serialize(x)      == <<"length", x>>
Deserialize(pipe) == IF Len(pipe) = 2 THEN Some(pipe[2]) ELSE None
\* What is in the pipe when the write of a record is cut short
ShortWrites(x)    == {SubSeq(Serialize(x), 1, n) : n \in 0..1}

Exited(n)   == <<"exited", n>>
Signaled(s) == <<"signaled", s>>

\* CloneHandle::wait, normal exit: the raw verdict of a wait status
Classify(st, pipe) ==
  IF st[1] = "exited"
    THEN IF st[2] = 0
           THEN RunInfo("Success", 0, Deserialize(pipe), RunUsageDefault)
           ELSE RunInfo("NonZeroExit", st[2], None, RunUsageDefault)
    ELSE RunInfo("KilledBySignal", st[2], None, RunUsageDefault)

TimeLimitHit(usage, limits) ==
  IsSome(limits.user_time) /\ usage.user_time >= Unwrap(limits.user_time)

MemoryLimitHit(ri, usage, limits) ==
  /\ ri.verdict = "KilledBySignal"
  /\ ri.n \in {SIGKILL, SIGSEGV}
  /\ IsSome(limits.memory)
  /\ usage.memory >= Unwrap(limits.memory)

\* merge_usage with the raw verdict kept whatever the usage
OverlaysRaw(ri, usage, limits) == {[ri EXCEPT !.usage = usage]}

\* RunInfo::merge_usage: install the measured usage and overlay the
\* cgroup-derived verdicts. Which of the two wins when both apply is not
\* fixed by the description: both outcomes are kept.
Overlays(ri, usage, limits) ==
  LET time   == {RunInfo("TimeExceeded", 0, None, usage) : x \in
                   {y \in {1} : TimeLimitHit(usage, limits)}}
      memory == {RunInfo("MemoryExceeded", 0, None, usage) : x \in
                   {y \in {1} : MemoryLimitHit(ri, usage, limits)}}
  IN  IF time \cup memory # {} THEN time \cup memory
      ELSE {[ri EXCEPT !.usage = usage]}

\* The closure with the empty result pipe taken for a failure
FlattenOptionStrict(option) ==
  IF ~IsSome(option) THEN Err(ChildError(<<"NoResult">>))
  ELSE IF IsOk(Unwrap(option)) THEN Ok(Unwrap(option).val)
  ELSE Err(ChildError(Unwrap(option).err))

\* lib.rs 157-160: the closure applied to the payload of the child's Success
FlattenOption(option) ==
  IF ~IsSome(option) THEN Ok(Unit)
  ELSE IF IsOk(Unwrap(option)) THEN Ok(Unwrap(option).val)
  ELSE Err(ChildError(Unwrap(option).err))

\* lib.rs 156-161: what the supervisor's closure returns from the wait's result
FlattenInner(r) ==
  IF IsErr(r) THEN r
  ELSE IF r.val.verdict # "Success" THEN Ok([r.val EXCEPT !.val = Unit])
  ELSE IF IsOk(FlattenOption(r.val.val))
    THEN Ok([r.val EXCEPT !.val = FlattenOption(r.val.val).val])
  ELSE FlattenOption(r.val.val)

\* JailHandle::wait asking for success once more, of the sandboxed run too
JailHandleWaitStrict(r) ==
  IF IsErr(r) THEN r
  ELSE LET outer == success(r.val)
           inner == IF IsSome(outer) THEN Unwrap(outer) ELSE None
       IN  IF IsSome(inner) /\ IsErr(Unwrap(inner)) THEN Unwrap(inner)
           ELSE IF IsSome(inner) /\ Unwrap(inner).val.verdict = "Success"
             THEN Unwrap(inner)
           ELSE Err(SupervisorProcessDiedError)

\* JailHandle::wait passing on the supervisor's own RunInfo when no record came
JailHandleWaitLenient(r) ==
  IF IsErr(r) THEN r
  ELSE LET outer == success(r.val)
           inner == IF IsSome(outer) THEN Unwrap(outer) ELSE None
       IN  IF IsSome(inner) THEN Unwrap(inner)
           ELSE Ok([r.val EXCEPT !.val = Unit])

\* lib.rs 176-186: JailHandle::wait on the result of the handle's wait
JailHandleWait(r) ==
  IF IsErr(r) THEN r
  ELSE LET outer == success(r.val)
           inner == IF IsSome(outer) THEN Unwrap(outer) ELSE None
       IN  IF IsSome(inner) THEN Unwrap(inner)
           ELSE Err(SupervisorProcessDiedError)

\* The child side of ffi::clone exiting 0 whatever the closure returned
ExitCodeZero(r) == 0

\* ffi::clone, child side: the closure's result is written to the result pipe
\* and the process exits, nonzero after an error
ExitCodeOf(r) == IF IsErr(r) THEN 1 ELSE 0

\* ---------------------------------------------------------- SpaceUsage
\* config.rs 12-13: SpaceUsage(u64), here with the text it is formatted to
Unformatted(b) == [bytes |-> b, text |-> <<>>]

\* Display with the decimal units tried before the binary ones
DisplayDecimalFirst(b) ==
  IF b % 1000000000 = 0 THEN <<b \div 1000000000, "gigabytes">>
  ELSE IF b % 1000000 = 0 THEN <<b \div 1000000, "megabytes">>
  ELSE IF b % 1000 = 0 THEN <<b \div 1000, "kilobytes">>
  ELSE IF b % (2^30) = 0 THEN <<b \div (2^30), "gibibytes">>
  ELSE IF b % (2^20) = 0 THEN <<b \div (2^20), "mebibytes">>
  ELSE IF b % (2^10) = 0 THEN <<b \div (2^10), "kibibytes">>
  ELSE <<b, "bytes">>

\* config.rs 53-71: impl Display for SpaceUsage; the text is the number
\* printed and the unit name after it (b >> k is b \div 2^k)
Display(b) ==
  IF b % (2^30) = 0 THEN <<b \div (2^30), "gibibytes">>
  ELSE IF b % (2^20) = 0 THEN <<b \div (2^20), "mebibytes">>
  ELSE IF b % (2^10) = 0 THEN <<b \div (2^10), "kibibytes">>
  ELSE IF b % 1000000000 = 0 THEN <<b \div 1000000000, "gigabytes">>
  ELSE IF b % 1000000 = 0 THEN <<b \div 1000000, "megabytes">>
  ELSE IF b % 1000 = 0 THEN <<b \div 1000, "kilobytes">>
  ELSE <<b, "bytes">>

\* ------------------------------------------------- cgroups, mounts, fds
\* The leaf directories controller_path / instance_name
Instances == {"i1", "i2"}
NoLeaf == [exists |-> FALSE, user_time |-> 0, memory |-> 0]

\* cgroups::enter_all_cgroups: mkdir (EEXIST ignored), join, and with
\* clear_usage = Yes write 0 to cpuacct.usage and memory.max_usage_in_bytes
EnterCgroup(leaf, clear_usage) ==
  IF clear_usage = "Yes"
    THEN [exists |-> TRUE, user_time |-> 0, memory |-> 0]
    ELSE [leaf EXCEPT !.exists = TRUE]

Min(a, b) == IF a < b THEN a ELSE b
Max(a, b) == IF a > b THEN a ELSE b

\* The kernel's accounting of what a member of the leaf uses: cpuacct.usage
\* adds up (counted up to MaxCpu), memory.max_usage_in_bytes is a maximum
Account(leaf, u) ==
  [leaf EXCEPT !.user_time = Min(MaxCpu, @ + u.user_time),
               !.memory = Max(@, u.memory)]

\* cgroups::get_usage: cpuacct.usage and memory.max_usage_in_bytes of the leaf
LeafUsage(leaf) == [user_time |-> leaf.user_time, memory |-> leaf.memory]

\* Mount namespaces: the caller's, and one per clone (CLONE_NEWNS)
Caller == <<0, "caller">>
Namespaces == {Caller} \cup Procs
HostNs == [table |-> {<<"host", 0>>}, prop |-> "shared"]
NoNs == [table |-> {}, prop |-> "none"]

\* ffi::clone: CLONE_NEWNS | CLONE_NEWUSER gives the child a copy of the
\* parent's mount table in which shared mounts have become slave mounts
CloneNs(ns) ==
  [table |-> ns.table, prop |-> IF ns.prop = "shared" THEN "slave" ELSE ns.prop]

\* What a call does to the mount table it is made on
TableAfter(table, call) ==
  IF call[1] = "mount_proc" THEN table \cup {<<"proc", 0>>}
  ELSE IF call[1] = "mount_inside" THEN table \cup {<<"bind", call[2]>>}
  ELSE IF call[1] = "pivot_root"
    THEN (table \ {<<"host", 0>>}) \cup {<<"new_root", 0>>, <<"old_root", 0>>}
  ELSE IF call[1] = "umount_old_root" THEN table \ {<<"old_root", 0>>}
  ELSE table

\* The mount tables after process n made the call: the change reaches the
\* other namespaces only from a namespace whose mounts are shared;
\* remount_private makes the namespace of n private
MntAfter(m, n, call) ==
  [x \in Namespaces |->
     IF x = n
       THEN [table |-> TableAfter(m[x].table, call),
             prop  |-> IF call[1] = "remount_private" THEN "private"
                       ELSE m[x].prop]
     ELSE IF m[n].prop = "shared" /\ m[x].prop # "none"
       THEN [m[x] EXCEPT !.table = TableAfter(@, call)]
     ELSE m[x]]

\* The child's descriptors: what each standard slot refers to, and the
\* descriptors open under other numbers
FdInit == [slot |-> [k \in {STDIN, STDOUT, STDERR} |-> "inherited"], extra |-> {}]
FirstFree(f) == 3 + Cardinality(f.extra)

\* redirect_fd that leaves the descriptor it opened
RedirectedNoClose(f, slot, path) ==
  [slot |-> [f.slot EXCEPT ![slot] = path], extra |-> f.extra \cup {FirstFree(f)}]

\* ffi::redirect_fd: open the path, dup2 onto the slot, close the original
Redirected(f, slot, path) ==
  [slot |-> [f.slot EXCEPT ![slot] = path], extra |-> f.extra]

\* ffi::redirect_fd failing: in open (nothing opened) or after it (the
\* descriptor is left open in the child, which is about to exit)
RedirectFailed(f, opened) ==
  IF opened THEN [f EXCEPT !.extra = @ \cup {FirstFree(f)}] ELSE f

\* ------------------------------------------------------------------- state
VARIABLES
  cfg,      \* [Jails -> Config]: the Config each spawn_jail is called with
  faulty,   \* [Jails -> BOOLEAN]: whether system calls of this jail may fail
  cpc,      \* [Jails -> caller's position]: unused, start, handle, wait, returned
  result,   \* [Jails -> what spawn_jail / JailHandle::wait returned to the caller]
  proc,     \* [Procs -> none, body, ret, exec, zombie, reaped]
  pos,      \* [Procs -> index of the next call of the process's closure]
  bres,     \* [Procs -> the Result the closure returned]
  pipe,     \* [Procs -> contents of the clone's result pipe]
  status,   \* [Procs -> wait status of the terminated process]
  w,        \* [Procs -> state of the parent's CloneHandle::wait on the process]
  out,      \* [Procs -> what CloneHandle::wait returned]
  log,      \* [Jails -> the calls the inner closure has completed, in order]
  opens,    \* [Jails -> the slots whose open() the child has entered, in order]
  opening,  \* [Jails -> BOOLEAN]: the child is inside the open() of a redirect
  ppos,     \* [Jails -> position of the user program in its script]
  fifo,     \* [FifoNames -> opens for reading, for writing, bytes buffered]
  usage,    \* [Jails -> what the program of the jail uses: cpu time, memory]
  failed,   \* [Jails -> the calls that returned an error]
  cgroup,   \* [Instances -> the leaf directory: exists, cpuacct.usage, max_usage]
  mnt,      \* [Namespaces -> the mount table and its propagation type]
  fdt,      \* [Jails -> the child's descriptors: the standard slots, the others]
  shown     \* a SpaceUsage and the text it was formatted to, if it was

vars == <<cfg, faulty, cpc, result, proc, pos, bres, pipe, status, w, out,
          log, opens, opening, ppos, fifo, usage, failed, cgroup, mnt, fdt,
          shown>>

\* ----------------------------------------------------------------- configs
Perms(n) == {q \in [1..n -> 1..MaxMounts] : \A a, b \in 1..n : a # b => q[a] # q[b]}
MountLists == UNION {Perms(n) : n \in 0..MaxMounts}

LimitsSet ==
  [wall_time : {None, Some(1)},
   user_time : {None, Some(1)},
   memory    : {None, Some(1)},
   stack     : {None},
   pids      : {None}]

ConfigsOver(paths, commands, roots, mounts, limits) ==
  [command         : commands,
   new_root        : roots,
   redirect_stdin  : paths,
   redirect_stdout : paths,
   redirect_stderr : paths,
   swap_redirects  : {"Yes", "No"},
   interactive     : {"Yes", "No"},
   mounts          : mounts,
   limits          : limits,
   instance_name   : {"i1"},
   clear_usage     : {"No"}]

\* Every setup (redirects, swap, root, mounts, interactive) with a program that
\* just exits 0 and no limits ...
SetupConfigs ==
  ConfigsOver({None, Some("file")}, {"hello_world"}, {None, Some("root")},
              MountLists, {LimitsDefault})

\* ... and every combination of limits with a program that may end in any way
LimitConfigs ==
  {c \in ConfigsOver({None}, {"program"}, {None}, {<<>>}, LimitsSet) :
     c.swap_redirects = "No"}

Configs == SetupConfigs \cup LimitConfigs

BaseConfig ==
  [command |-> "program", new_root |-> None, redirect_stdin |-> None,
   redirect_stdout |-> None, redirect_stderr |-> None, swap_redirects |-> "No",
   interactive |-> "No", mounts |-> <<>>, limits |-> LimitsDefault,
   instance_name |-> "i1", clear_usage |-> "No"]

WaitIdle ==
  [pc |-> "idle", alarm |-> "off", late |-> FALSE, sig |-> 0, st |-> <<>>,
   limits |-> LimitsDefault]

InitProcs ==
  /\ result  = [j \in Jails |-> <<>>]
  /\ proc    = [p \in Procs |-> "none"]
  /\ pos     = [p \in Procs |-> 1]
  /\ bres    = [p \in Procs |-> <<>>]
  /\ pipe    = [p \in Procs |-> <<>>]
  /\ status  = [p \in Procs |-> <<>>]
  /\ w       = [p \in Procs |-> WaitIdle]
  /\ out     = [p \in Procs |-> <<>>]
  /\ log     = [j \in Jails |-> <<>>]
  /\ opens   = [j \in Jails |-> <<>>]
  /\ opening = [j \in Jails |-> FALSE]
  /\ ppos    = [j \in Jails |-> 1]
  /\ fifo    = [f \in FifoNames |-> [r |-> 0, w |-> 0, data |-> 0]]
  /\ usage   = [j \in Jails |-> RunUsageDefault]
  /\ failed  = [j \in Jails |-> {}]
  /\ mnt     = [n \in Namespaces |-> IF n = Caller THEN HostNs ELSE NoNs]
  /\ fdt     = [j \in Jails |-> FdInit]

\* No leaf of an earlier run is left
InitRest ==
  /\ InitProcs
  /\ shown = Unformatted(0)
  /\ cgroup = [i \in Instances |-> NoLeaf]

\* One jail, any Config, system calls may fail
Init ==
  /\ \E c \in Configs : cfg = [j \in Jails |-> IF j = 1 THEN c ELSE BaseConfig]
  /\ faulty = [j \in Jails |-> j = 1]
  /\ cpc    = [j \in Jails |-> IF j = 1 THEN "start" ELSE "unused"]
  /\ InitRest

\* ------------------------------------------------------------------ helpers
\* The outcomes a system call of jail j may have: TRUE for success
Outcomes(j) == IF faulty[j] THEN {TRUE, FALSE} ELSE {TRUE}

Alive(p) == proc[p] \in {"body", "ret", "exec"}

\* A call whose error is noted but not returned: the closure goes on
ReturnNot(p, r) ==
  /\ proc' = proc
  /\ bres' = [bres EXCEPT ![p] = r]

\* The `?` operator: the closure of process p returns Err(e)
Return(p, r) ==
  /\ proc' = [proc EXCEPT ![p] = "ret"]
  /\ bres' = [bres EXCEPT ![p] = r]

Fails(j, who, op) == failed' = [failed EXCEPT ![j] = @ \cup {<<who, op>>}]

\* The inner child of jail j has joined its leaf
Joined(j) == \E i \in 1..Len(log[j]) : log[j][i][1] = "enter_all_cgroups"

\* The next call of the inner closure
Cur(j) == InnerBody(cfg[j])[pos[Inner(j)]]
InBody(j) ==
  /\ proc[Inner(j)] = "body"
  /\ pos[Inner(j)] <= Len(InnerBody(cfg[j]))

\* The FIFO end a redirect of a slot opens: stdin O_RDONLY, the others O_WRONLY
OpenEnd(f, slot) ==
  IF slot = STDIN THEN [f EXCEPT !.r = 1] ELSE [f EXCEPT !.w = 1]
\* open() of a FIFO that never blocks
OtherEndOpenAlways(f, slot) == TRUE
\* open() of a FIFO returns once the opposite end has been opened
OtherEndOpen(f, slot) == IF slot = STDIN THEN f.w > 0 ELSE f.r > 0

\* CloneHandle::wait begins: arms SIGALRM for limits.wall_time if set
WaitBegin(p, limits) ==
  w' = [w EXCEPT ![p] =
          [pc |-> "waitpid",
           alarm |-> IF IsSome(limits.wall_time) THEN "armed" ELSE "off",
           late |-> FALSE, sig |-> 0, st |-> <<>>, limits |-> limits]]

\* ------------------------------------------------------------------- caller
\* lib.rs 68-164, in the caller: the alarm handler, then the outer clone
spawn_jail(j) ==
  /\ cpc[j] = "start"
  /\ \E handler_ok \in Outcomes(j), clone_ok \in Outcomes(j) :
       IF ~handler_ok
         THEN /\ cpc' = [cpc EXCEPT ![j] = "returned"]
              /\ result' = [result EXCEPT ![j] = Err(FFIError("set_sig_alarm_handler"))]
              /\ Fails(j, "caller", "set_sig_alarm_handler")
              /\ UNCHANGED <<proc, mnt>>
       ELSE IF ~clone_ok
         THEN /\ cpc' = [cpc EXCEPT ![j] = "returned"]
              /\ result' = [result EXCEPT ![j] = Err(FFIError("clone"))]
              /\ Fails(j, "caller", "clone")
              /\ UNCHANGED <<proc, mnt>>
       ELSE /\ cpc' = [cpc EXCEPT ![j] = "handle"]
            /\ proc' = [proc EXCEPT ![Sup(j)] = "body"]
            /\ mnt' = [mnt EXCEPT ![Sup(j)] = CloneNs(mnt[Caller])]
            /\ UNCHANGED <<result, failed>>
  /\ UNCHANGED <<shown, cfg, faulty, pos, bres, pipe, status, w, out, log, opens,
                 opening, ppos, fifo, usage, cgroup, fdt>>

\* lib.rs 176-178: JailHandle::wait enters the handle's wait
jail_handle_wait(j) ==
  /\ cpc[j] = "handle"
  /\ cpc' = [cpc EXCEPT ![j] = "wait"]
  /\ WaitBegin(Sup(j), CallerWaitLimits(cfg[j]))
  /\ UNCHANGED <<shown, cfg, faulty, result, proc, pos, bres, pipe, status, out, log,
                 opens, opening, ppos, fifo, usage, failed,
                 cgroup, mnt, fdt>>

\* lib.rs 179-186: JailHandle::wait returns
jail_handle_return(j) ==
  /\ cpc[j] = "wait"
  /\ w[Sup(j)].pc = "done"
  /\ cpc' = [cpc EXCEPT ![j] = "returned"]
  /\ result' = [result EXCEPT ![j] = JailHandleWait(out[Sup(j)])]
  /\ UNCHANGED <<shown, cfg, faulty, proc, pos, bres, pipe, status, w, out, log,
                 opens, opening, ppos, fifo, usage, failed,
                 cgroup, mnt, fdt>>

\* --------------------------------------------------------------- supervisor
\* lib.rs 77-81: kill_on_parent_death, mount_proc, set_uid_gid_maps
supervisor_setup(j) ==
  /\ proc[Sup(j)] = "body"
  /\ pos[Sup(j)] <= Len(SupervisorSetup)
  /\ \E ok \in Outcomes(j) :
       IF ok
         THEN /\ pos' = [pos EXCEPT ![Sup(j)] = @ + 1]
              /\ mnt' = MntAfter(mnt, Sup(j), SupervisorSetup[pos[Sup(j)]])
              /\ UNCHANGED <<proc, bres, failed>>
         ELSE /\ Return(Sup(j), Err(FFIError(SupervisorSetup[pos[Sup(j)]][1])))
              /\ Fails(j, "sup", SupervisorSetup[pos[Sup(j)]][1])
              /\ UNCHANGED <<pos, mnt>>
  /\ UNCHANGED <<shown, cfg, faulty, cpc, result, pipe, status, w, out, log, opens,
                 opening, ppos, fifo, usage, cgroup, fdt>>

\* lib.rs 83, 150: the inner clone; `?` on its result
clone_inner(j) ==
  /\ proc[Sup(j)] = "body"
  /\ pos[Sup(j)] = Len(SupervisorSetup) + 1
  /\ \E ok \in Outcomes(j) :
       IF ok
         THEN /\ pos' = [pos EXCEPT ![Sup(j)] = @ + 1]
              /\ proc' = [proc EXCEPT ![Inner(j)] = "body"]
              /\ mnt' = [mnt EXCEPT ![Inner(j)] = CloneNs(mnt[Sup(j)])]
              /\ UNCHANGED <<bres, failed>>
         ELSE /\ Return(Sup(j), Err(FFIError("clone")))
              /\ Fails(j, "sup", "clone")
              /\ UNCHANGED <<pos, mnt>>
  /\ UNCHANGED <<shown, cfg, faulty, cpc, result, pipe, status, w, out, log, opens,
                 opening, ppos, fifo, usage, cgroup, fdt>>

\* lib.rs 150: the supervisor enters the wait on the child
supervisor_wait(j) ==
  /\ proc[Sup(j)] = "body"
  /\ pos[Sup(j)] = Len(SupervisorSetup) + 2
  /\ w[Inner(j)].pc = "idle"
  /\ WaitBegin(Inner(j), SupervisorWaitLimits(cfg[j]))
  /\ UNCHANGED <<shown, cfg, faulty, cpc, result, proc, pos, bres, pipe, status, out,
                 log, opens, opening, ppos, fifo, usage, failed,
                 cgroup, mnt, fdt>>

\* lib.rs 156-162: the wait's result is flattened and the closure returns
supervisor_flatten(j) ==
  /\ proc[Sup(j)] = "body"
  /\ w[Inner(j)].pc = "done"
  /\ Return(Sup(j), FlattenInner(out[Inner(j)]))
  /\ UNCHANGED <<shown, cfg, faulty, cpc, result, pos, pipe, status, w, out, log,
                 opens, opening, ppos, fifo, usage, failed,
                 cgroup, mnt, fdt>>

\* ffi::clone, child side: send the closure's result and exit
clone_child_exit(p) ==
  /\ proc[p] = "ret"
  /\ pipe' = [pipe EXCEPT ![p] = Serialize(bres[p])]
  /\ status' = [status EXCEPT ![p] = Exited(ExitCodeOf(bres[p]))]
  /\ proc' = [proc EXCEPT ![p] = "zombie"]
  /\ UNCHANGED <<shown, cfg, faulty, cpc, result, pos, bres, w, out, log, opens,
                 opening, ppos, fifo, usage, failed,
                 cgroup, mnt, fdt>>

\* ------------------------------------------------------ the sandboxed child
\* What a command has used when it ends: anything for "program", nothing
\* measurable for the helpers
ProgramUsages(command) ==
  IF command = "program"
    THEN [user_time : 0..MaxCpu, memory : 0..MaxMem]
  ELSE IF command = "threads_loop_500_ms"
    THEN {[user_time |-> 1, memory |-> 0]}
  ELSE {RunUsageDefault}

\* The clear_usage argument of enter_all_cgroups, never asking for a reset
ClearUsageNever(c) == "No"
\* lib.rs 110: the clear_usage argument of enter_all_cgroups
ClearUsageArg(c) == c.clear_usage

ErrorOf(op) ==
  IF op = "enter_all_cgroups" THEN <<"CgroupError", op>> ELSE FFIError(op)

PathOf(j) == Unwrap(RedirectPath(cfg[j], Cur(j)[2]))

\* ffi::redirect_fd, first half: the child enters open() on the path
redirect_fd_open(j) ==
  /\ InBody(j)
  /\ Cur(j)[1] = "redirect_fd"
  /\ ~opening[j]
  /\ opening' = [opening EXCEPT ![j] = TRUE]
  /\ opens' = [opens EXCEPT ![j] = Append(@, Cur(j)[2])]
  /\ fifo' = IF IsFifo(PathOf(j))
               THEN [fifo EXCEPT ![PathOf(j)] = OpenEnd(@, Cur(j)[2])]
               ELSE fifo
  /\ UNCHANGED <<shown, cfg, faulty, cpc, result, proc, pos, bres, pipe, status, w,
                 out, log, ppos, usage, failed,
                 cgroup, mnt, fdt>>

\* ffi::redirect_fd, second half: open() returns, dup2 onto the slot, close
redirect_fd(j) ==
  /\ InBody(j)
  /\ Cur(j)[1] = "redirect_fd"
  /\ opening[j]
  /\ IsFifo(PathOf(j)) => OtherEndOpen(fifo[PathOf(j)], Cur(j)[2])
  /\ opening' = [opening EXCEPT ![j] = FALSE]
  /\ \E ok \in Outcomes(j) :
       IF ok
         THEN /\ log' = [log EXCEPT ![j] = Append(@, Cur(j))]
              /\ pos' = [pos EXCEPT ![Inner(j)] = @ + 1]
              /\ fdt' = [fdt EXCEPT ![j] = Redirected(@, Cur(j)[2], PathOf(j))]
              /\ UNCHANGED <<proc, bres, failed>>
         ELSE /\ Return(Inner(j), Err(ErrorOf("redirect_fd")))
              /\ Fails(j, "inner", "redirect_fd")
              /\ \E opened \in BOOLEAN :
                   fdt' = [fdt EXCEPT ![j] = RedirectFailed(@, opened)]
              /\ UNCHANGED <<log, pos>>
  /\ UNCHANGED <<shown, cfg, faulty, cpc, result, pipe, status, w, out, opens, ppos,
                 fifo, usage, cgroup, mnt>>

\* lib.rs 104-145: one call of the setup between the redirects and the exec
setup_call(j) ==
  /\ InBody(j)
  /\ Cur(j)[1] \notin {"redirect_fd", "exec_command"}
  /\ \E ok \in Outcomes(j) :
       IF ok
         THEN /\ log' = [log EXCEPT ![j] = Append(@, Cur(j))]
              /\ pos' = [pos EXCEPT ![Inner(j)] = @ + 1]
              /\ mnt' = MntAfter(mnt, Inner(j), Cur(j))
              /\ cgroup' = IF Cur(j)[1] = "enter_all_cgroups"
                             THEN [cgroup EXCEPT ![cfg[j].instance_name] =
                                     EnterCgroup(@, ClearUsageArg(cfg[j]))]
                             ELSE cgroup
              /\ UNCHANGED <<proc, bres, failed>>
         ELSE /\ Return(Inner(j), Err(ErrorOf(Cur(j)[1])))
              /\ Fails(j, "inner", Cur(j)[1])
              /\ UNCHANGED <<log, pos, mnt, cgroup>>
  /\ UNCHANGED <<shown, cfg, faulty, cpc, result, pipe, status, w, out, opens,
                 opening, ppos, fifo, usage, fdt>>

\* lib.rs 147: execve replaces the process image (the result pipe closes with
\* nothing written) or returns ExecError.  The program's resource use is drawn
\* here and charged to the leaf the child has joined.
exec_command(j) ==
  /\ InBody(j)
  /\ Cur(j)[1] = "exec_command"
  /\ \E ok \in Outcomes(j) :
       IF ok
         THEN /\ log' = [log EXCEPT ![j] = Append(@, Cur(j))]
              /\ pos' = [pos EXCEPT ![Inner(j)] = @ + 1]
              /\ proc' = [proc EXCEPT ![Inner(j)] = "exec"]
              /\ \E u \in ProgramUsages(cfg[j].command) :
                   /\ usage' = [usage EXCEPT ![j] = u]
                   /\ cgroup' = IF Joined(j)
                                  THEN [cgroup EXCEPT ![cfg[j].instance_name] =
                                          Account(@, u)]
                                  ELSE cgroup
              /\ UNCHANGED <<bres, failed>>
         ELSE /\ Return(Inner(j), Err(ErrorOf("exec_command")))
              /\ Fails(j, "inner", "exec_command")
              /\ UNCHANGED <<log, pos, usage, cgroup>>
  /\ UNCHANGED <<shown, cfg, faulty, cpc, result, pipe, status, w, out, opens,
                 opening, ppos, fifo, mnt, fdt>>

\* ---------------------------------------------------------- the user program
\* The scripts of the helper programs (tests/integration_test.rs 23-49)
Script(command) ==
  IF command = "write_then_read" THEN <<"write", "read">>
  ELSE IF command = "read_then_write" THEN <<"read", "write">>
  ELSE <<>>

\* The ways the program of jail j can end now: "program" is any program (it
\* may also never end), the helpers exit 0 once they are through their script
Terminations(j) ==
  IF cfg[j].command = "program"
    THEN {Exited(n) : n \in 0..MaxExit}
         \cup {Signaled(sg) : sg \in {SIGKILL, SIGSEGV, SIGTERM}}
  ELSE IF ppos[j] > Len(Script(cfg[j].command)) THEN {Exited(0)}
  ELSE {}

program_terminates(j) ==
  /\ proc[Inner(j)] = "exec"
  /\ \E st \in Terminations(j) :
       status' = [status EXCEPT ![Inner(j)] = st]
  /\ proc' = [proc EXCEPT ![Inner(j)] = "zombie"]
  /\ UNCHANGED <<shown, cfg, faulty, cpc, result, pos, bres, pipe, w, out, log,
                 opens, opening, ppos, fifo, usage, failed,
                 cgroup, mnt, fdt>>

\* One read or write of a helper program on its redirected stdin / stdout
program_io(j) ==
  /\ proc[Inner(j)] = "exec"
  /\ ppos[j] <= Len(Script(cfg[j].command))
  /\ LET op   == Script(cfg[j].command)[ppos[j]]
         path == IF op = "read" THEN cfg[j].redirect_stdin
                 ELSE cfg[j].redirect_stdout
     IN  IF IsSome(path) /\ IsFifo(Unwrap(path))
           THEN IF op = "read"
                  THEN /\ fifo[Unwrap(path)].data > 0
                       /\ fifo' = [fifo EXCEPT ![Unwrap(path)].data = @ - 1]
                  ELSE fifo' = [fifo EXCEPT ![Unwrap(path)].data = @ + 1]
           ELSE UNCHANGED fifo
  /\ ppos' = [ppos EXCEPT ![j] = @ + 1]
  /\ UNCHANGED <<shown, cfg, faulty, cpc, result, proc, pos, bres, pipe, status, w,
                 out, log, opens, opening, usage, failed,
                 cgroup, mnt, fdt>>

\* --------------------------------------------------------- CloneHandle::wait
\* SIGALRM: the armed wall-time alarm of the process waiting on p fires; `late`
\* records that the child had already ended
alarm_fires(p) ==
  /\ w[p].alarm = "armed"
  /\ w' = [w EXCEPT ![p].alarm = "fired", ![p].late = ~Alive(p)]
  /\ UNCHANGED <<shown, cfg, faulty, cpc, result, proc, pos, bres, pipe, status, out,
                 log, opens, opening, ppos, fifo, usage, failed,
                 cgroup, mnt, fdt>>

\* waitpid returns the status of the terminated child
waitpid_returns(p) ==
  /\ w[p].pc = "waitpid"
  /\ proc[p] = "zombie"
  /\ proc' = [proc EXCEPT ![p] = "reaped"]
  /\ w' = [w EXCEPT ![p].pc = "exited", ![p].st = status[p]]
  /\ UNCHANGED <<shown, cfg, faulty, cpc, result, pos, bres, pipe, status, out, log,
                 opens, opening, ppos, fifo, usage, failed,
                 cgroup, mnt, fdt>>

\* waitpid returns EINTR with the alarm flag set
waitpid_eintr(p) ==
  /\ w[p].pc = "waitpid"
  /\ w[p].alarm = "fired"
  /\ proc[p] # "zombie"
  /\ w' = [w EXCEPT ![p].pc = "alarm"]
  /\ UNCHANGED <<shown, cfg, faulty, cpc, result, proc, pos, bres, pipe, status, out,
                 log, opens, opening, ppos, fifo, usage, failed,
                 cgroup, mnt, fdt>>

\* on alarm: SIGKILL the child and go on to the probe without reaping it
kill_child_unreaped(p) ==
  /\ w[p].pc = "alarm"
  /\ w' = [w EXCEPT ![p].pc = "timedout", ![p].sig = SIGKILL,
                    ![p].st = Signaled(SIGKILL)]
  /\ IF Alive(p)
       THEN /\ proc' = [proc EXCEPT ![p] = "zombie"]
            /\ status' = [status EXCEPT ![p] = Signaled(SIGKILL)]
       ELSE UNCHANGED <<proc, status>>
  /\ UNCHANGED <<shown, cfg, faulty, cpc, result, pos, bres, pipe, out, log, opens,
                 opening, ppos, fifo, usage, failed,
                 cgroup, mnt, fdt>>

\* on alarm: SIGKILL the child
kill_child(p) ==
  /\ w[p].pc = "alarm"
  /\ w' = [w EXCEPT ![p].pc = "killed", ![p].sig = SIGKILL]
  /\ IF Alive(p)
       THEN /\ proc' = [proc EXCEPT ![p] = "zombie"]
            /\ status' = [status EXCEPT ![p] = Signaled(SIGKILL)]
       ELSE UNCHANGED <<proc, status>>
  /\ UNCHANGED <<shown, cfg, faulty, cpc, result, pos, bres, pipe, out, log, opens,
                 opening, ppos, fifo, usage, failed,
                 cgroup, mnt, fdt>>

\* on alarm: reap the killed child
reap_killed(p) ==
  /\ w[p].pc = "killed"
  /\ proc[p] = "zombie"
  /\ proc' = [proc EXCEPT ![p] = "reaped"]
  /\ w' = [w EXCEPT ![p].pc = "timedout", ![p].st = status[p]]
  /\ UNCHANGED <<shown, cfg, faulty, cpc, result, pos, bres, pipe, status, out, log,
                 opens, opening, ppos, fifo, usage, failed,
                 cgroup, mnt, fdt>>

\* The usage probe of a wait: cgroups::get_usage in the supervisor (lib.rs
\* 150-155), RunUsage::default() in the caller (lib.rs 178)
UsageProbe(p) ==
  IF p[2] = "inner" THEN LeafUsage(cgroup[cfg[p[1]].instance_name])
  ELSE RunUsageDefault
\* Reading the files of a leaf that does not exist fails
ProbeOutcomes(p) ==
  IF p[2] # "inner" THEN {TRUE}
  ELSE IF cgroup[cfg[p[1]].instance_name].exists THEN Outcomes(p[1])
  ELSE {FALSE}

\* the wait probes the usage and returns its verdict
wait_returns(p) ==
  /\ w[p].pc \in {"exited", "timedout"}
  /\ \E ok \in ProbeOutcomes(p) :
       IF ~ok
         THEN /\ out' = [out EXCEPT ![p] = Err(<<"CgroupError", "get_usage">>)]
              /\ Fails(p[1], "sup", "get_usage")
       ELSE /\ \E ri \in IF w[p].pc = "timedout"
                           THEN {RunInfo("WallTimeExceeded", 0, None,
                                         UsageProbe(p))}
                           ELSE Overlays(Classify(w[p].st, pipe[p]),
                                         UsageProbe(p), w[p].limits) :
                 out' = [out EXCEPT ![p] = Ok(ri)]
            /\ UNCHANGED failed
  /\ w' = [w EXCEPT ![p].pc = "done",
                    ![p].alarm = IF @ = "armed" THEN "off" ELSE @]
  /\ UNCHANGED <<shown, cfg, faulty, cpc, result, proc, pos, bres, pipe, status, log,
                 opens, opening, ppos, fifo, usage,
                 cgroup, mnt, fdt>>

\* --------------------------------------------------------------------- specs
LaunchStep(j) ==
  \/ spawn_jail(j)
  \/ jail_handle_wait(j)
  \/ jail_handle_return(j)
  \/ supervisor_setup(j)
  \/ clone_inner(j)
  \/ supervisor_wait(j)
  \/ supervisor_flatten(j)
  \/ redirect_fd_open(j)
  \/ redirect_fd(j)
  \/ setup_call(j)
  \/ exec_command(j)

JailStep(j) ==
  \/ LaunchStep(j)
  \/ program_terminates(j)

WaitStep(p) ==
  \/ clone_child_exit(p)
  \/ alarm_fires(p)
  \/ waitpid_returns(p)
  \/ waitpid_eintr(p)
  \/ kill_child(p)
  \/ reap_killed(p)
  \/ wait_returns(p)

Next ==
  \/ \E j \in Jails : JailStep(j)
  \/ \E p \in Procs : WaitStep(p)

Spec == Init /\ [][Next]_vars

\* Every step but the end of a program that may run forever: processes are
\* scheduled, system calls return, an armed alarm goes off
Progress ==
  \/ \E j \in Jails : LaunchStep(j)
  \/ \E j \in Jails : cfg[j].command # "program" /\ program_terminates(j)
  \/ \E j \in Jails : program_io(j)
  \/ \E p \in Procs : WaitStep(p)

\* One jail running any program under any combination of limits, with or
\* without a redirected stdin, system calls may fail
FairConfigs ==
  {c \in ConfigsOver({None, Some("file")}, {"program"}, {None}, {<<>>},
                     LimitsSet) :
     /\ c.swap_redirects = "No"
     /\ c.interactive = "No"
     /\ c.redirect_stdout = None
     /\ c.redirect_stderr = None}

InitFair ==
  /\ \E c \in FairConfigs :
       cfg = [j \in Jails |-> IF j = 1 THEN c ELSE BaseConfig]
  /\ faulty = [j \in Jails |-> j = 1]
  /\ cpc    = [j \in Jails |-> IF j = 1 THEN "start" ELSE "unused"]
  /\ InitRest

SpecFair == InitFair /\ [][Next]_vars /\ WF_vars(Progress)

\* tests/integration_test.rs 450-498: two jails started together, sharing two
\* FIFOs crosswise, each with either value of swap_redirects, both with the
\* same wall_time or none
PairConfig(command, stdin, stdout, swap, wall) ==
  [BaseConfig EXCEPT !.command = command,
                     !.redirect_stdin = Some(stdin),
                     !.redirect_stdout = Some(stdout),
                     !.swap_redirects = swap,
                     !.limits = [LimitsDefault EXCEPT !.wall_time = wall]]

InitPair ==
  /\ \E s1, s2 \in {"Yes", "No"} : \E wall \in {None, Some(1)} :
       cfg = [j \in Jails |->
                IF j = 1
                  THEN PairConfig("write_then_read", "fifoB", "fifoA", s1, wall)
                  ELSE [PairConfig("read_then_write", "fifoA", "fifoB", s2,
                                   wall) EXCEPT !.instance_name = "i2"]]
  /\ faulty = [j \in Jails |-> FALSE]
  /\ cpc    = [j \in Jails |-> "start"]
  /\ InitRest

NextPair ==
  \/ Next
  \/ \E j \in Jails : program_io(j)

SpecPair == InitPair /\ [][NextPair]_vars /\ WF_vars(Progress)

\* ffi::clone, child side: the process exits with the record not or only
\* partly written
clone_child_exit_short(p) ==
  /\ proc[p] = "ret"
  /\ faulty[p[1]]
  /\ \E cut \in ShortWrites(bres[p]) : pipe' = [pipe EXCEPT ![p] = cut]
  /\ status' = [status EXCEPT ![p] = Exited(ExitCodeOf(bres[p]))]
  /\ proc' = [proc EXCEPT ![p] = "zombie"]
  /\ Fails(p[1], p[2], "write_result")
  /\ UNCHANGED <<shown, cfg, faulty, cpc, result, pos, bres, w, out, log, opens,
                 opening, ppos, fifo, usage, cgroup, mnt, fdt>>

\* The supervisor is killed from outside: its wait on the child, its alarm and
\* whatever it had not yet written are gone with it
supervisor_killed(j) ==
  /\ proc[Sup(j)] \in {"body", "ret"}
  /\ \E sg \in {SIGKILL, SIGTERM} :
       status' = [status EXCEPT ![Sup(j)] = Signaled(sg)]
  /\ proc' = [proc EXCEPT ![Sup(j)] = "zombie"]
  /\ w' = [w EXCEPT ![Inner(j)].pc = IF @ = "done" THEN @ ELSE "gone",
                    ![Inner(j)].alarm = IF @ = "armed" THEN "off" ELSE @]
  /\ Fails(j, "sup", "killed")
  /\ UNCHANGED <<shown, cfg, faulty, cpc, result, pos, bres, pipe, out, log, opens,
                 opening, ppos, fifo, usage, cgroup, mnt, fdt>>

\* The caller dies while it holds the handle; its wait goes with it
caller_dies(j) ==
  /\ cpc[j] \in {"handle", "wait"}
  /\ cpc' = [cpc EXCEPT ![j] = "dead"]
  /\ w' = [w EXCEPT ![Sup(j)].pc = IF @ = "done" THEN @ ELSE "gone"]
  /\ Fails(j, "caller", "died")
  /\ UNCHANGED <<shown, cfg, faulty, result, proc, pos, bres, pipe, status, out, log,
                 opens, opening, ppos, fifo, usage, cgroup, mnt, fdt>>

\* PR_SET_PDEATHSIG: once kill_on_parent_death has run (lib.rs 77), the
\* supervisor of a dead caller gets SIGKILL; the re-check of the parent in
\* kill_on_parent_death covers a caller that died before the prctl
parent_death_signal(j) ==
  /\ cpc[j] = "dead"
  /\ proc[Sup(j)] \in {"body", "ret"}
  /\ pos[Sup(j)] > 1
  /\ status' = [status EXCEPT ![Sup(j)] = Signaled(SIGKILL)]
  /\ proc' = [proc EXCEPT ![Sup(j)] = "zombie"]
  /\ w' = [w EXCEPT ![Inner(j)].pc = IF @ = "done" THEN @ ELSE "gone",
                    ![Inner(j)].alarm = IF @ = "armed" THEN "off" ELSE @]
  /\ Fails(j, "sup", "parent_death")
  /\ UNCHANGED <<shown, cfg, faulty, cpc, result, pos, bres, pipe, out, log, opens,
                 opening, ppos, fifo, usage, cgroup, mnt, fdt>>

NextKill ==
  \/ Next
  \/ \E p \in Procs : clone_child_exit_short(p)
  \/ \E j \in Jails : supervisor_killed(j)

\* One jail, any program under any limits, system calls may fail, the
\* supervisor may be killed at any moment or exit with its record cut short
SpecKill == InitFair /\ [][NextKill]_vars /\ WF_vars(Progress)

\* One jail running any program, with or without a wall-time limit, no system
\* call failing
InitCancel ==
  /\ \E wall \in {None, Some(1)} :
       cfg = [j \in Jails |->
                [BaseConfig EXCEPT
                   !.redirect_stdin = Some("file"),
                   !.limits = [LimitsDefault EXCEPT !.wall_time = wall]]]
  /\ faulty = [j \in Jails |-> FALSE]
  /\ cpc    = [j \in Jails |-> IF j = 1 THEN "start" ELSE "unused"]
  /\ InitRest

NextCancel ==
  \/ Next
  \/ \E j \in Jails : supervisor_killed(j)
  \/ \E j \in Jails : caller_dies(j)
  \/ \E j \in Jails : parent_death_signal(j)

\* The supervisor may be killed and the caller may die at any moment; the
\* kernel delivers an armed parent-death signal
SpecCancel ==
  /\ InitCancel
  /\ [][NextCancel]_vars
  /\ WF_vars(Progress)
  /\ WF_vars(\E j \in Jails : parent_death_signal(j))

\* tests/integration_test.rs 407-435: invocations one after the other under the
\* same instance name, each over a leaf that earlier runs may have left behind.
\* The program burns a fixed amount of CPU time (or none) and exits 0; the
\* user-time limit, if set, is above what one run of it uses.
SeqConfigs ==
  {[BaseConfig EXCEPT !.command = command,
                      !.new_root = Some("root"),
                      !.redirect_stdout = Some("file"),
                      !.limits = [LimitsDefault EXCEPT !.user_time = ut,
                                                       !.wall_time = wall]] :
     command \in {"threads_loop_500_ms", "hello_world"},
     ut \in {None, Some(2)},
     wall \in {None, Some(1)}}

LeftBehind ==
  {NoLeaf} \cup [exists : {TRUE}, user_time : 0..MaxCpu, memory : {0}]

InitSeq ==
  /\ \E c \in SeqConfigs : \E clear \in [Jails -> {"Yes", "No"}] :
       cfg = [j \in Jails |-> [c EXCEPT !.clear_usage = clear[j]]]
  /\ faulty = [j \in Jails |-> FALSE]
  /\ cpc    = [j \in Jails |-> IF j = 1 THEN "start" ELSE "queued"]
  /\ \E leaf \in LeftBehind :
       cgroup = [i \in Instances |-> IF i = "i1" THEN leaf ELSE NoLeaf]
  /\ InitProcs
  /\ shown = Unformatted(0)

\* build_and_run of the next invocation, once the one before has returned
build_and_run(j) ==
  /\ cpc[j] = "queued"
  /\ j - 1 \in Jails
  /\ cpc[j - 1] = "returned"
  /\ cpc' = [cpc EXCEPT ![j] = "start"]
  /\ UNCHANGED <<shown, cfg, faulty, result, proc, pos, bres, pipe, status, w, out,
                 log, opens, opening, ppos, fifo, usage, failed,
                 cgroup, mnt, fdt>>

NextSeq ==
  \/ Next
  \/ \E j \in Jails : build_and_run(j)

SpecSeq == InitSeq /\ [][NextSeq]_vars

\* What the supervisor's wait on the child can hand to the flattening of
\* lib.rs 156-161: an error of the wait, or a RunInfo of any verdict whose
\* Success payload is what was read from the child's result pipe (nothing,
\* the record Ok(()), or the record of an error)
WaitResults ==
  LET usages == [user_time : 0..MaxCpu, memory : 0..MaxMem]
  IN  {Err(<<"CgroupError", "get_usage">>)}
      \cup {Ok(RunInfo("Success", 0, val, u)) :
               val \in {None, Some(Ok(Unit)), Some(Err(FFIError("exec_command"))),
                        Some(Err(FFIError("mount_proc")))},
               u \in usages}
      \cup {Ok(RunInfo("NonZeroExit", n, None, u)) : n \in 1..MaxExit, u \in usages}
      \cup {Ok(RunInfo("KilledBySignal", sg, None, u)) :
               sg \in {SIGKILL, SIGSEGV, SIGTERM}, u \in usages}
      \cup {Ok(RunInfo(v, 0, None, u)) :
               v \in {"WallTimeExceeded", "TimeExceeded", "MemoryExceeded"},
               u \in usages}

\* The supervisor's wait on the child has just returned, with any result; the
\* caller is in its own wait on the supervisor
InitFlatten ==
  /\ cfg    = [j \in Jails |-> BaseConfig]
  /\ faulty = [j \in Jails |-> FALSE]
  /\ cpc    = [j \in Jails |-> IF j = 1 THEN "wait" ELSE "unused"]
  /\ \E r \in WaitResults :
       out = [p \in Procs |-> IF p = Inner(1) THEN r ELSE <<>>]
  /\ proc   = [p \in Procs |-> IF p = Sup(1) THEN "body"
                                ELSE IF p = Inner(1) THEN "reaped" ELSE "none"]
  /\ pos    = [p \in Procs |-> IF p = Sup(1) THEN Len(SupervisorSetup) + 2
                                ELSE 1]
  /\ w      = [p \in Procs |->
                 IF p = Inner(1) THEN [WaitIdle EXCEPT !.pc = "done"]
                 ELSE IF p = Sup(1) THEN [WaitIdle EXCEPT !.pc = "waitpid"]
                 ELSE WaitIdle]
  /\ result  = [j \in Jails |-> <<>>]
  /\ bres    = [p \in Procs |-> <<>>]
  /\ pipe    = [p \in Procs |-> <<>>]
  /\ status  = [p \in Procs |-> <<>>]
  /\ log     = [j \in Jails |-> <<>>]
  /\ opens   = [j \in Jails |-> <<>>]
  /\ opening = [j \in Jails |-> FALSE]
  /\ ppos    = [j \in Jails |-> 1]
  /\ fifo    = [f \in FifoNames |-> [r |-> 0, w |-> 0, data |-> 0]]
  /\ usage   = [j \in Jails |-> RunUsageDefault]
  /\ failed  = [j \in Jails |-> {}]
  /\ cgroup  = [i \in Instances |-> NoLeaf]
  /\ mnt     = [n \in Namespaces |-> IF n = Caller THEN HostNs ELSE NoNs]
  /\ fdt     = [j \in Jails |-> FdInit]
  /\ shown   = Unformatted(0)

\* lib.rs 156-164, 176-186: from the wait's result to what the caller gets
NextFlatten ==
  \/ \E j \in Jails : supervisor_flatten(j)
  \/ \E p \in Procs : clone_child_exit(p)
  \/ \E p \in Procs : waitpid_returns(p)
  \/ \E p \in Procs : wait_returns(p)
  \/ \E j \in Jails : jail_handle_return(j)

SpecFlatten == InitFlatten /\ [][NextFlatten]_vars

\* Byte counts to format: small multiples of every unit, multiples that a
\* binary and a decimal unit share, and counts just off a multiple; all
\* within the 31 bits the checker's integers have
ByteCounts ==
  LET units  == {1, 1000, 1000000, 1000000000, 2^10, 2^20, 2^30}
      counts == (0..MaxCount) \cup {125, 1000, 1024, 15625}
      pairs  == {q \in counts \X units : q[1] <= 2147482623 \div q[2]}
  IN  {q[1] * q[2] + r : q \in pairs, r \in {0, 1, 1000, 1024}}

InitDisplay ==
  /\ cfg    = [j \in Jails |-> BaseConfig]
  /\ faulty = [j \in Jails |-> FALSE]
  /\ cpc    = [j \in Jails |-> "unused"]
  /\ cgroup = [i \in Instances |-> NoLeaf]
  /\ InitProcs
  /\ \E b \in ByteCounts : shown = Unformatted(b)

\* config.rs 54: fmt writes the text of the SpaceUsage
fmt ==
  /\ shown.text = <<>>
  /\ shown' = [shown EXCEPT !.text = Display(shown.bytes)]
  /\ UNCHANGED <<cfg, faulty, cpc, result, proc, pos, bres, pipe, status, w,
                 out, log, opens, opening, ppos, fifo, usage, failed, cgroup,
                 mnt, fdt>>

SpecDisplay == InitDisplay /\ [][fmt]_vars

\* ===================================================================== claims
Active == {j \in Jails : cpc[j] # "unused"}
Logged(j, op) == \E i \in 1..Len(log[j]) : log[j][i][1] = op
LoggedCall(j, call) == \E i \in 1..Len(log[j]) : log[j][i] = call

\* The order of the setup steps as the specification states it
Rank(op) ==
  CASE op = "redirect_fd"      -> 1
    [] op = "set_stack_limit"   -> 2
    [] op = "enter_all_cgroups" -> 3
    [] op = "unshare_cgroup"    -> 4
    [] op = "remount_private"   -> 5
    [] op = "mount_inside"      -> 6
    [] op = "pivot_root"        -> 7
    [] op = "mount_proc"        -> 8
    [] op = "umount_old_root"   -> 9
    [] op = "set_uid_gid_maps"  -> 10
    [] op = "move_to_different_process_group" -> 11
    [] op = "exec_command"      -> 12

\* The calls a Config asks for, as the specification lists them
Required(c) ==
     {Call("redirect_fd", slot) : slot \in {sl \in {STDIN, STDOUT, STDERR} :
                                             IsSome(RedirectPath(c, sl))}}
  \cup {Call("set_stack_limit", 0), Call("enter_all_cgroups", 0),
        Call("unshare_cgroup", 0), Call("remount_private", 0),
        Call("mount_proc", 0), Call("set_uid_gid_maps", 0),
        Call("exec_command", 0)}
  \cup (IF IsSome(c.new_root)
          THEN {Call("pivot_root", 0), Call("umount_old_root", 0)}
               \cup {Call("mount_inside", c.mounts[i]) : i \in 1..Len(c.mounts)}
          ELSE {})
  \cup (IF c.interactive = "No"
          THEN {Call("move_to_different_process_group", 0)} ELSE {})

MountsLogged(j) == SelectSeq(log[j], LAMBDA call : call[1] = "mount_inside")

\* C1: in the inner child the setup steps run in one fixed total order for
\* every Config: redirects, set_stack_limit, cgroup join, unshare_cgroup,
\* remount_private, the bind mounts in Config order, pivot_root with mount_proc
\* between the pivot and the detach of the old root (or a plain mount_proc),
\* set_uid_gid_maps, move_to_different_process_group (interactive=No only),
\* exec_command.  A step has completed only after every step the Config asks
\* for before it has completed, no step runs twice, and no later step has
\* completed while a redirect's open() is in progress.
C1_SetupOrder ==
  \A j \in Active :
    /\ \A i, k \in 1..Len(log[j]) :
         i < k =>
           /\ Rank(log[j][i][1]) <= Rank(log[j][k][1])
           /\ log[j][i] # log[j][k]
           /\ Rank(log[j][i][1]) = Rank(log[j][k][1])
                => log[j][i][1] \in {"redirect_fd", "mount_inside"}
    /\ \A i \in 1..Len(log[j]) :
         /\ log[j][i] \in Required(cfg[j])
         /\ \A call \in Required(cfg[j]) :
              Rank(call[1]) < Rank(log[j][i][1])
                => \E k \in 1..(i - 1) : log[j][k] = call
    /\ \A i \in 1..Len(MountsLogged(j)) :
         /\ i <= Len(cfg[j].mounts)
         /\ MountsLogged(j)[i][2] = cfg[j].mounts[i]
    /\ opening[j] => \A i \in 1..Len(log[j]) : log[j][i][1] = "redirect_fd"

\* C1 witness: a child with a new root, two bind mounts, a redirect and
\* interactive=No has completed the whole pipeline and exec'd
C1_Witness ==
  /\ proc[Inner(1)] = "exec"
  /\ Logged(1, "exec_command")
  /\ IsSome(cfg[1].new_root)
  /\ Len(cfg[1].mounts) = 2
  /\ Len(MountsLogged(1)) = 2
  /\ cfg[1].interactive = "No"
  /\ IsSome(cfg[1].redirect_stdout)
  /\ Logged(1, "umount_old_root")

\* The place of a slot in the order of opens that swap_redirects selects
OpenRank(slot, swap) ==
  IF slot = STDERR THEN 3
  ELSE IF swap = "Yes" THEN (IF slot = STDOUT THEN 1 ELSE 2)
  ELSE (IF slot = STDIN THEN 1 ELSE 2)

\* C2: the child opens its redirect targets in the order swap_redirects
\* selects: stdout, stdin, stderr with Yes; stdin, stdout, stderr with No.
\* Unconfigured streams are skipped, the others keep their relative order, and
\* stderr is last; once the redirects are through every configured stream has
\* been opened.
C2_RedirectOrder ==
  \A j \in Active :
    LET sw == cfg[j].swap_redirects IN
    /\ \A i, k \in 1..Len(opens[j]) :
         i < k => OpenRank(opens[j][i], sw) < OpenRank(opens[j][k], sw)
    /\ \A i \in 1..Len(opens[j]) :
         /\ IsSome(RedirectPath(cfg[j], opens[j][i]))
         /\ \A slot \in {STDIN, STDOUT, STDERR} :
              (IsSome(RedirectPath(cfg[j], slot))
                 /\ OpenRank(slot, sw) < OpenRank(opens[j][i], sw))
                => \E k \in 1..(i - 1) : opens[j][k] = slot
    /\ Logged(j, "set_stack_limit") =>
         \A slot \in {STDIN, STDOUT, STDERR} :
           IsSome(RedirectPath(cfg[j], slot))
             => \E k \in 1..Len(opens[j]) : opens[j][k] = slot

\* C2 witness: with swap_redirects=Yes and all three streams configured the
\* child has opened stdout, then stdin, then stderr
C2_Witness ==
  /\ cfg[1].swap_redirects = "Yes"
  /\ opens[1] = <<STDOUT, STDIN, STDERR>>
  /\ Logged(1, "set_stack_limit")

Returned(j) == cpc[j] = "returned"
\* The run of jail j got as far as the user program with no call failing
CleanRun(j) == Returned(j) /\ failed[j] = {} /\ Logged(j, "exec_command")
\* The wall-time alarm of the supervisor of jail j fired
AlarmFired(j) == w[Inner(j)].alarm = "fired"
LimitVerdicts == {"WallTimeExceeded", "TimeExceeded", "MemoryExceeded"}

\* C5 (as stated): whenever a setup step or exec_command fails in the inner
\* child, the child writes the error to the result pipe and exits nonzero, and
\* JailHandle::wait returns Err(ChildError(that error)), never a RunInfo.
\* Stated for runs in which nothing else fails and no wall-time alarm fires.
C5_ChildErrorReported ==
  \A j \in Active : \A f \in failed[j] :
    (f[1] = "inner" /\ failed[j] = {f} /\ ~AlarmFired(j)) =>
      /\ proc[Inner(j)] \in {"zombie", "reaped"} =>
           /\ pipe[Inner(j)] = Serialize(Err(ErrorOf(f[2])))
           /\ status[Inner(j)][1] = "exited"
           /\ status[Inner(j)][2] # 0
      /\ Returned(j) =>
           /\ IsErr(result[j])
           /\ result[j].err = ChildError(ErrorOf(f[2]))

\* C6: for every Config with no limits whose setup steps all succeed and whose
\* program exits with code 0, JailHandle::wait returns Ok with the Success
\* verdict (the empty result pipe a successful exec leaves is no failure).
C6_SuccessOnExitZero ==
  \A j \in Active :
    (CleanRun(j) /\ cfg[j].limits = LimitsDefault
       /\ status[Inner(j)] = Exited(0)) =>
      /\ IsOk(result[j])
      /\ result[j].val.verdict = "Success"

\* C6 witness: a run with a new root and a redirect, no limits, exit code 0,
\* has returned
C6_Witness ==
  /\ CleanRun(1)
  /\ cfg[1].limits = LimitsDefault
  /\ status[Inner(1)] = Exited(0)
  /\ IsSome(cfg[1].new_root)
  /\ IsSome(cfg[1].redirect_stdout)
  /\ pipe[Inner(1)] = <<>>

\* No limit of the Config was reached by the run of jail j
NoLimitExceeded(j) ==
  /\ ~AlarmFired(j)
  /\ IsSome(cfg[j].limits.user_time)
       => usage[j].user_time < Unwrap(cfg[j].limits.user_time)
  /\ IsSome(cfg[j].limits.memory)
       => usage[j].memory < Unwrap(cfg[j].limits.memory)

\* C7: when setup succeeds and no limit is exceeded, a program that exits with
\* code n # 0 yields Ok(NonZeroExit(n)) and one killed by signal s yields
\* Ok(KilledBySignal(s)): never an Err, and n / s reach the caller unchanged.
C7_ExitAndSignalPassThrough ==
  \A j \in Active :
    (CleanRun(j) /\ NoLimitExceeded(j)) =>
      /\ IsOk(result[j])
      /\ (status[Inner(j)][1] = "exited" /\ status[Inner(j)][2] # 0) =>
           /\ result[j].val.verdict = "NonZeroExit"
           /\ result[j].val.n = status[Inner(j)][2]
      /\ status[Inner(j)][1] = "signaled" =>
           /\ result[j].val.verdict = "KilledBySignal"
           /\ result[j].val.n = status[Inner(j)][2]

\* C7 witness: a program killed by SIGSEGV under a memory limit it stayed
\* below is reported as KilledBySignal(SIGSEGV)
C7_Witness ==
  /\ CleanRun(1)
  /\ NoLimitExceeded(1)
  /\ IsSome(cfg[1].limits.memory)
  /\ status[Inner(1)] = Signaled(SIGSEGV)
  /\ result[1].val.verdict = "KilledBySignal"

\* C9: a limit verdict is produced only for a dimension whose limit is set.
\* With wall_time None the supervisor's wait arms no alarm, sends no kill and
\* no verdict is WallTimeExceeded; with user_time None none is TimeExceeded;
\* with memory None none is MemoryExceeded. The caller's wait on the
\* supervisor runs under Limits::default(): it never arms an alarm, never
\* kills, and its own RunInfo never carries a limit verdict.
C9_LimitsOnlyWhenSet ==
  \A j \in Active :
    LET lim  == cfg[j].limits
        never(v) ==
          /\ (w[Inner(j)].pc = "done" /\ IsOk(out[Inner(j)]))
               => out[Inner(j)].val.verdict # v
          /\ (Returned(j) /\ IsOk(result[j])) => result[j].val.verdict # v
    IN  /\ ~IsSome(lim.wall_time) =>
             /\ w[Inner(j)].alarm = "off"
             /\ w[Inner(j)].sig = 0
             /\ never("WallTimeExceeded")
        /\ ~IsSome(lim.user_time) => never("TimeExceeded")
        /\ ~IsSome(lim.memory) => never("MemoryExceeded")
        /\ w[Sup(j)].alarm = "off"
        /\ w[Sup(j)].sig = 0
        /\ w[Sup(j)].pc # "idle" => w[Sup(j)].limits = LimitsDefault
        /\ (w[Sup(j)].pc = "done" /\ IsOk(out[Sup(j)]))
             => out[Sup(j)].val.verdict \notin LimitVerdicts

\* C9 witness: with user_time as the only limit, a program killed by SIGKILL
\* at the highest memory usage is reported as killed, and the caller's wait
\* on the supervisor ended with a Config that sets a limit
C9_Witness ==
  /\ Returned(1)
  /\ IsSome(cfg[1].limits.user_time)
  /\ ~IsSome(cfg[1].limits.memory)
  /\ ~IsSome(cfg[1].limits.wall_time)
  /\ usage[1] = [user_time |-> 0, memory |-> MaxMem]
  /\ status[Inner(1)] = Signaled(SIGKILL)
  /\ IsOk(result[1])
  /\ result[1].val.verdict = "KilledBySignal"
  /\ w[Sup(1)].pc = "done"

\* The raw verdict of a wait status
RawVerdict(st) ==
  IF st[1] = "signaled" THEN "KilledBySignal"
  ELSE IF st[2] = 0 THEN "Success" ELSE "NonZeroExit"

\* The verdicts the overlay allows for a wait status, a usage and the limits
OverlaidVerdicts(st, u, lim) ==
  LET time   == IsSome(lim.user_time) /\ u.user_time >= Unwrap(lim.user_time)
      memory == /\ st[1] = "signaled"
                /\ st[2] \in {SIGKILL, SIGSEGV}
                /\ IsSome(lim.memory)
                /\ u.memory >= Unwrap(lim.memory)
  IN  IF time /\ memory THEN {"TimeExceeded", "MemoryExceeded"}
      ELSE IF time THEN {"TimeExceeded"}
      ELSE IF memory THEN {"MemoryExceeded"}
      ELSE {RawVerdict(st)}

\* C10: for a run that reached the program, with no failing call and no alarm,
\* the verdict the caller gets is the raw verdict of the child's wait status
\* overlaid with the measured usage: MemoryExceeded for a child killed by
\* SIGKILL or SIGSEGV with memory usage at or over the memory limit,
\* TimeExceeded for user_time at or over the user_time limit (one of the two
\* when both apply), and the raw verdict (Success, NonZeroExit,
\* KilledBySignal) when the usage is below every set limit. The usage reported
\* is the measured one.
C10_OverlayPrecedence ==
  \A j \in Active :
    (CleanRun(j) /\ ~AlarmFired(j)) =>
      /\ IsOk(result[j])
      /\ result[j].val.verdict
           \in OverlaidVerdicts(status[Inner(j)], usage[j], cfg[j].limits)
      /\ result[j].val.usage = usage[j]

\* C10 witness: a child killed by SIGSEGV with memory usage exactly at the
\* limit and user_time below its limit is reported as MemoryExceeded
C10_Witness ==
  /\ CleanRun(1)
  /\ ~AlarmFired(1)
  /\ status[Inner(1)] = Signaled(SIGSEGV)
  /\ IsSome(cfg[1].limits.memory)
  /\ usage[1].memory = Unwrap(cfg[1].limits.memory)
  /\ IsSome(cfg[1].limits.user_time)
  /\ usage[1].user_time < Unwrap(cfg[1].limits.user_time)
  /\ result[1].val.verdict = "MemoryExceeded"

\* The caller of jail j got Ok with verdict v
Verdict(j, v) == Returned(j) /\ IsOk(result[j]) /\ result[j].val.verdict = v

CrossSwap == cfg[1].swap_redirects = "Yes" /\ cfg[2].swap_redirects = "No"
BothNoSwap == cfg[1].swap_redirects = "No" /\ cfg[2].swap_redirects = "No"
\* The inner child of jail j is inside an open() that has not returned
Blocked(j) == proc[Inner(j)] = "body" /\ opening[j]
\* ... and that cannot return as things are
Stuck(j) ==
  /\ Blocked(j)
  /\ IsFifo(PathOf(j))
  /\ ~OtherEndOpen(fifo[PathOf(j)], Cur(j)[2])

\* C3: two jails sharing two FIFOs crosswise, peer 1 with swap_redirects = Yes
\* and peer 2 with No, never deadlock: no state has both children blocked in
\* open(), and under fair scheduling both calls of JailHandle::wait return,
\* each with the Success verdict unless its wall-time alarm went off.
C3_PairNoDeadlock ==
  CrossSwap =>
    /\ [](~(Stuck(1) /\ Stuck(2)))
    /\ <>(\A j \in Jails : /\ Returned(j)
                           /\ Verdict(j, "Success") \/ AlarmFired(j))

\* C3 witness: both peers returned Success after exchanging data over the FIFOs
C3_Witness ==
  /\ CrossSwap
  /\ \A j \in Jails : /\ Verdict(j, "Success")
                      /\ Logged(j, "exec_command")
                      /\ ppos[j] = 3
                      /\ ~AlarmFired(j)

\* C4: with swap_redirects = No on both peers, each inner child enters open()
\* on its stdin FIFO first and that open() never returns: in no reachable state
\* has a call of either inner closure completed, neither child reaches
\* exec_command or returns from its closure, and a child that is no longer
\* blocked there was killed with SIGKILL by its supervisor's wall-time
\* watchdog.
C4_BothBlockForever ==
  BothNoSwap =>
    \A j \in Jails :
      /\ log[j] = <<>>
      /\ ~Logged(j, "exec_command")
      /\ proc[Inner(j)] \notin {"exec", "ret"}
      /\ opens[j] \in {<<>>, <<STDIN>>}
      /\ Blocked(j) => Stuck(j)
      /\ proc[Inner(j)] \in {"zombie", "reaped"} =>
           /\ status[Inner(j)] = Signaled(SIGKILL)
           /\ w[Inner(j)].sig = SIGKILL

\* C4 witness: no wall_time, both children blocked in the open() of their
\* stdin, both supervisors and both callers waiting
C4_Witness ==
  /\ BothNoSwap
  /\ ~IsSome(cfg[1].limits.wall_time)
  /\ \A j \in Jails : /\ Blocked(j)
                      /\ opens[j] = <<STDIN>>
                      /\ w[Inner(j)].pc = "waitpid"
                      /\ w[Sup(j)].pc = "waitpid"

\* C8, safety: the kill is SIGKILL and is sent only after the alarm went off
\* with the child not yet reaped; the reap of a killed child follows the kill;
\* WallTimeExceeded is returned only after both, and only with wall_time set;
\* an alarm that goes off after the child ended leads to no kill and no
\* WallTimeExceeded.
C8_KillOrder ==
  \A j \in Active :
    LET p == Inner(j)
        wall(r) == IsOk(r) /\ r.val.verdict = "WallTimeExceeded"
    IN  /\ w[p].sig \in {0, SIGKILL}
        /\ w[p].sig = SIGKILL =>
             /\ w[p].alarm = "fired"
             /\ ~w[p].late
             /\ ~Alive(p)
             /\ w[p].pc \in {"killed", "timedout", "done"}
        /\ w[p].pc = "alarm" => proc[p] # "reaped" /\ w[p].sig = 0
        /\ w[p].pc = "killed" => w[p].sig = SIGKILL /\ proc[p] = "zombie"
        /\ w[p].pc = "timedout" => w[p].sig = SIGKILL /\ proc[p] = "reaped"
        /\ (w[p].pc = "done" /\ wall(out[p])) =>
             /\ w[p].sig = SIGKILL
             /\ proc[p] = "reaped"
             /\ IsSome(cfg[j].limits.wall_time)
        /\ (Returned(j) /\ wall(result[j])) =>
             w[p].sig = SIGKILL /\ proc[p] = "reaped"
        /\ (w[p].late \/ w[p].alarm # "fired") =>
             /\ w[p].sig = 0
             /\ w[p].pc = "done" => ~wall(out[p])
             /\ Returned(j) => ~wall(result[j])

\* C8: the order kill, reap, verdict holds in every execution, and with
\* wall_time set a child that reached the program is eventually dead and
\* reaped, whether it ever ends by itself or not, and both waits eventually
\* return; a wait interrupted by the alarm ends in WallTimeExceeded for the
\* caller.
C8_WallTimeKill ==
  /\ []C8_KillOrder
  /\ \A j \in Jails :
       /\ (proc[Inner(j)] = "exec" /\ IsSome(cfg[j].limits.wall_time))
            ~> (proc[Inner(j)] = "reaped" /\ Returned(j))
       /\ (w[Inner(j)].pc = "alarm")
            ~> (Returned(j) /\ (\/ Verdict(j, "WallTimeExceeded")
                                \/ <<"sup", "get_usage">> \in failed[j]))

\* C8 witness: a program still running when the alarm went off was killed with
\* SIGKILL, reaped, and the caller got WallTimeExceeded
C8_Witness ==
  /\ Verdict(1, "WallTimeExceeded")
  /\ Logged(1, "exec_command")
  /\ status[Inner(1)] = Signaled(SIGKILL)
  /\ w[Inner(1)].sig = SIGKILL
  /\ proc[Inner(1)] = "reaped"
  /\ failed[1] = {}

\* The leaf directory of jail j
LeafOf(j) == cgroup[cfg[j].instance_name]

\* C11 (as stated): after JailHandle::wait has returned, no leaf cgroup
\* directory created by the invocation still exists.
C11_LeafDestroyed ==
  \A j \in Active : (Returned(j) /\ Joined(j)) => ~LeafOf(j).exists

\* C11 (amended): the leaf directory is made when the inner child enters its
\* cgroups, it exists while the sandboxed program runs, and nothing in
\* spawn_jail or JailHandle::wait removes it on any exit path: from the join
\* on it exists in every state, after wait has returned too; before the join
\* the invocation has made no leaf.
C11_LeafKept ==
  \A j \in Active :
    /\ proc[Inner(j)] = "exec" => LeafOf(j).exists
    /\ Joined(j) => LeafOf(j).exists
    /\ ~Joined(j) => LeafOf(j) = NoLeaf

\* C11 witness: wait has returned after a run whose exec_command failed, and
\* the leaf the child had joined is still there
C11_Witness ==
  /\ Returned(1)
  /\ Joined(1)
  /\ <<"inner", "exec_command">> \in failed[1]
  /\ LeafOf(1).exists

\* The invocation j ran the CPU-bound test program under the user-time limit
\* of the test
LoopUnderLimit(j) ==
  /\ cfg[j].command = "threads_loop_500_ms"
  /\ IsSome(cfg[j].limits.user_time)

\* C12: the counters of a leaf carry over between invocations with the same
\* instance_name unless clear_usage = Yes: a second invocation measures its own
\* use on top of what the first left, or from zero if it clears. For the
\* CPU-bound test program under a user-time limit above one run's use, an
\* invocation with clear_usage = Yes ends Success whatever ran before it, and
\* one with clear_usage = No that follows an earlier run ends TimeExceeded.
\* Stated for runs in which no call fails and no wall-time alarm fires.
C12_UsageCarriesOver ==
  \A j \in Active :
    (CleanRun(j) /\ ~AlarmFired(j)) =>
      /\ IsOk(result[j])
      /\ cfg[j].clear_usage = "Yes" =>
           result[j].val.usage = usage[j]
      /\ (j = 2 /\ cfg[j].clear_usage = "No" /\ IsOk(result[1])) =>
           result[j].val.usage.user_time =
             Min(MaxCpu, result[1].val.usage.user_time + usage[j].user_time)
      /\ (LoopUnderLimit(j) /\ cfg[j].clear_usage = "Yes") =>
           Verdict(j, "Success")
      /\ (LoopUnderLimit(j) /\ cfg[j].clear_usage = "No" /\ j = 2
            /\ CleanRun(1)) =>
           Verdict(j, "TimeExceeded")

\* The first run cleared and succeeded, the second did not clear and ran over
C12_Witness ==
  /\ LoopUnderLimit(1)
  /\ cfg[1].clear_usage = "Yes"
  /\ Verdict(1, "Success")
  /\ cfg[2].clear_usage = "No"
  /\ Verdict(2, "TimeExceeded")
  /\ result[2].val.usage.user_time = 2

\* The supervisor of jail j completed its wait on the inner child
SupWaited(j) == w[Inner(j)].pc = "done" /\ IsOk(out[Inner(j)])
\* The supervisor of jail j exited 0 with its complete record in the pipe
SupDelivered(j) ==
  /\ proc[Sup(j)] \in {"zombie", "reaped"}
  /\ status[Sup(j)] = Exited(0)
  /\ IsSome(Deserialize(pipe[Sup(j)]))
\* Why the supervisor of jail j never got to its wait on the inner child
NotReached ==
  {<<"caller", "set_sig_alarm_handler">>, <<"caller", "clone">>,
   <<"sup", "kill_on_parent_death">>, <<"sup", "mount_proc">>,
   <<"sup", "set_uid_gid_maps">>, <<"sup", "clone">>}

\* C13 (as stated): JailHandle.wait() returns Ok(RunInfo) if and only if the
\* supervisor reached and completed its wait on the inner child.
C13_RunInfoIffWaited ==
  \A j \in Active : Returned(j) => (IsOk(result[j]) <=> SupWaited(j))

\* C13 (amended): JailHandle.wait() returns Ok(RunInfo) only if the supervisor
\* reached and completed its wait on the inner child, and it does return Ok
\* if the supervisor then also exited 0 with its complete record written. In
\* every execution where the supervisor did not reach its wait (outer clone
\* failed, a supervisor setup step failed, the inner clone failed, or the
\* supervisor died earlier) the caller receives an Err and never a RunInfo.
C13_RunInfoOnlyIfWaited ==
  \A j \in Active :
    /\ failed[j] \cap NotReached # {} => ~SupWaited(j)
    /\ Returned(j) =>
         /\ IsOk(result[j]) => SupWaited(j) /\ SupDelivered(j)
         /\ (SupWaited(j) /\ SupDelivered(j)) => IsOk(result[j])
         /\ ~SupWaited(j) => IsErr(result[j])

\* A RunInfo reaches the caller after a wait the supervisor completed and a
\* record it delivered
C13_Witness ==
  /\ Returned(1)
  /\ SupWaited(1)
  /\ SupDelivered(1)
  /\ IsOk(result[1])
  /\ result[1].val.verdict = "NonZeroExit"

\* The inner child of jail j has ended
Ended(p) == proc[p] \in {"zombie", "reaped"}
ExecError == ErrorOf("exec_command")
\* exec_command is a step of the inner closure alone, and only the inner
\* process ever becomes the user program
OnlyInnerExecs ==
  /\ \A i \in 1..Len(SupervisorSetup) : SupervisorSetup[i][1] # "exec_command"
  /\ \A j \in Active :
       /\ proc[Sup(j)] # "exec"
       /\ Logged(j, "exec_command") =>
            /\ proc[Inner(j)] \in {"exec", "zombie", "reaped"}
            /\ log[j][Len(log[j])][1] = "exec_command"
       /\ proc[Inner(j)] = "exec" => Logged(j, "exec_command")

\* C14 (as stated): exec_command on the user command is invoked only by the
\* innermost process, never by the caller or the supervisor; and the innermost
\* child always either executes the user command or dies reporting ExecError.
C14_ExecOrExecError ==
  /\ OnlyInnerExecs
  /\ \A j \in Active :
       Ended(Inner(j)) =>
         \/ Logged(j, "exec_command")
         \/ pipe[Inner(j)] = Serialize(Err(ExecError))

\* C14 (amended): exec_command on the user command is invoked only by the
\* innermost process, never by the caller or the supervisor. The innermost
\* child never gets past its closure without the exec: it executes the user
\* command, or dies reporting ExecError, or dies reporting the error of the
\* setup step that failed, or is killed by the wall-time watchdog before the
\* exec.
C14_ExecOrReportedError ==
  /\ OnlyInnerExecs
  /\ \A j \in Active :
       /\ pos[Inner(j)] > Len(InnerBody(cfg[j])) => Logged(j, "exec_command")
       /\ Ended(Inner(j)) =>
            \/ Logged(j, "exec_command")
            \/ /\ pipe[Inner(j)] = Serialize(Err(ExecError))
               /\ <<"inner", "exec_command">> \in failed[j]
            \/ \E f \in failed[j] :
                 /\ f[1] = "inner"
                 /\ f[2] # "exec_command"
                 /\ pipe[Inner(j)] = Serialize(Err(ErrorOf(f[2])))
                 /\ status[Inner(j)] = Exited(1)
            \/ /\ status[Inner(j)] = Signaled(SIGKILL)
               /\ w[Inner(j)].sig = SIGKILL
               /\ pipe[Inner(j)] = <<>>

\* The child dies of a failed mount, reporting it, without an exec
C14_Witness ==
  /\ Ended(Inner(1))
  /\ ~Logged(1, "exec_command")
  /\ <<"inner", "mount_inside">> \in failed[1]
  /\ pipe[Inner(1)] = Serialize(Err(ErrorOf("mount_inside")))

\* C15: if a supervisor setup step that runs before the inner clone fails
\* (kill_on_parent_death, mount_proc, set_uid_gid_maps with the host ids), the
\* caller's JailHandle.wait() returns Err(SupervisorProcessDiedError), and the
\* inner clone and the user command are never started.
C15_SupervisorSetupFailure ==
  \A j \in Active : \A i \in 1..Len(SupervisorSetup) :
    <<"sup", SupervisorSetup[i][1]>> \in failed[j] =>
      /\ proc[Inner(j)] = "none"
      /\ w[Inner(j)].pc = "idle"
      /\ log[j] = <<>>
      /\ pos[Sup(j)] = i
      /\ Returned(j) => result[j] = Err(SupervisorProcessDiedError)

\* wait() has returned after the supervisor's mount_proc failed
C15_Witness ==
  /\ Returned(1)
  /\ <<"sup", "mount_proc">> \in failed[1]
  /\ status[Sup(1)] = Exited(1)
  /\ result[1] = Err(SupervisorProcessDiedError)

\* C16: JailHandle.wait() returns Err(SupervisorProcessDiedError) whenever the
\* supervisor ends without delivering a complete result record: it exits with
\* a nonzero code, is killed by a signal, or exits 0 having written nothing or
\* only part of a record. Whenever the supervisor exits 0 after writing a
\* complete record, wait() returns exactly the Result carried in that record.
C16_SupervisorDied ==
  \A j \in Active :
    (Returned(j) /\ Ended(Sup(j))) =>
      /\ status[Sup(j)][1] = "signaled" =>
           result[j] = Err(SupervisorProcessDiedError)
      /\ (status[Sup(j)][1] = "exited" /\ status[Sup(j)][2] # 0) =>
           result[j] = Err(SupervisorProcessDiedError)
      /\ (status[Sup(j)] = Exited(0) /\ pipe[Sup(j)] \in ShortWrites(bres[Sup(j)])) =>
           result[j] = Err(SupervisorProcessDiedError)
      /\ (status[Sup(j)] = Exited(0) /\ pipe[Sup(j)] = Serialize(bres[Sup(j)])) =>
           result[j] = bres[Sup(j)]

\* wait() has returned after a supervisor that exited 0 with half a record
C16_Witness ==
  /\ Returned(1)
  /\ status[Sup(1)] = Exited(0)
  /\ Len(pipe[Sup(1)]) = 1
  /\ IsOk(bres[Sup(1)])
  /\ result[1] = Err(SupervisorProcessDiedError)

\* The supervisor of jail j was killed from outside after the inner clone
SupKilled(j) ==
  /\ <<"sup", "killed">> \in failed[j]
  /\ proc[Inner(j)] # "none"

\* C17 (as stated): if the supervisor is killed from outside at any point after
\* the inner clone, the sandboxed child eventually dies: the supervisor is never
\* dead with the sandboxed program running forever.
C17_ChildDiesWithSupervisor ==
  \A j \in Jails : (SupKilled(j) /\ Alive(Inner(j))) ~> ~Alive(Inner(j))

\* C17, second half: if the caller dies, the supervisor is killed by the
\* parent-death signal armed as its first step (or has ended before).
C17_SupervisorDiesWithCaller ==
  \A j \in Jails : (cpc[j] = "dead") ~> ~Alive(Sup(j))

\* The supervisor has been killed and the program it supervised runs on
C17_Witness ==
  /\ SupKilled(1)
  /\ Ended(Sup(1))
  /\ proc[Inner(1)] = "exec"

\* The calls that change a mount table
MountOps ==
  {"mount_proc", "mount_inside", "pivot_root", "umount_old_root",
   "remount_private"}
\* The place in the log of jail j of the first call of op, 0 if there is none
FirstLogged(j, op) ==
  IF Logged(j, op)
    THEN CHOOSE i \in 1..Len(log[j]) :
           /\ log[j][i][1] = op
           /\ \A k \in 1..(i - 1) : log[j][k][1] # op
    ELSE 0

\* C18: spawn_jail followed by wait() leaves the caller's mount table unchanged
\* for every Config: every mount, remount, bind mount, pivot_root and umount of
\* the pipeline happens in the supervisor's or the child's own mount namespace,
\* whose mounts do not propagate to the caller's, and the child remounts / as
\* private before its first bind mount (and before every other mount it makes).
C18_CallerMountsUntouched ==
  /\ mnt[Caller] = HostNs
  /\ \A j \in Active :
       /\ mnt[Sup(j)].prop \in {"none", "slave"}
       /\ mnt[Inner(j)].prop \in {"none", "slave", "private"}
       /\ pos[Sup(j)] > 2 => <<"proc", 0>> \in mnt[Sup(j)].table
       /\ \A i \in 1..Len(log[j]) :
            (log[j][i][1] \in MountOps \ {"remount_private"}) =>
              /\ FirstLogged(j, "remount_private") \in 1..(i - 1)
              /\ mnt[Inner(j)].prop = "private"
       /\ Logged(j, "umount_old_root") =>
            mnt[Inner(j)].table =
              {<<"new_root", 0>>, <<"proc", 0>>}
                \cup {<<"bind", cfg[j].mounts[i]>> : i \in 1..Len(cfg[j].mounts)}

\* wait() has returned after a run that bind-mounted and pivoted
C18_Witness ==
  /\ Returned(1)
  /\ Len(cfg[1].mounts) = MaxMounts
  /\ FirstLogged(1, "mount_inside") > FirstLogged(1, "remount_private")
  /\ Logged(1, "umount_old_root")
  /\ <<"proc", 0>> \in mnt[Sup(1)].table
  /\ <<"bind", cfg[1].mounts[1]>> \in mnt[Inner(1)].table
  /\ mnt[Caller] = HostNs

Slots == {STDIN, STDOUT, STDERR}
\* What a standard slot of the child of jail j refers to once the redirects of
\* its Config are made
SlotTarget(j, k) ==
  IF IsSome(RedirectPath(cfg[j], k)) THEN Unwrap(RedirectPath(cfg[j], k))
  ELSE "inherited"
\* The child of jail j is at its exec_command call or past it
AtExec(j) ==
  \/ Logged(j, "exec_command")
  \/ <<"inner", "exec_command">> \in failed[j]
  \/ InBody(j) /\ Cur(j)[1] = "exec_command"

\* C19: when the inner child calls exec_command, no descriptor opened for a
\* redirect is still open under its original number: each was dup2'd onto its
\* standard slot and the original closed; after any sequence of the up-to-three
\* redirects the only descriptors changed are the standard slots configured.
C19_RedirectFdsClosed ==
  \A j \in Active :
    /\ AtExec(j) =>
         /\ fdt[j].extra = {}
         /\ \A k \in Slots : fdt[j].slot[k] = SlotTarget(j, k)
    /\ <<"inner", "redirect_fd">> \notin failed[j] =>
         /\ fdt[j].extra = {}
         /\ \A k \in Slots :
              fdt[j].slot[k] =
                IF \E i \in 1..Len(log[j]) : log[j][i] = Call("redirect_fd", k)
                  THEN SlotTarget(j, k) ELSE "inherited"

\* The child execs with stdin and stderr redirected and stdout left alone
C19_Witness ==
  /\ Logged(1, "exec_command")
  /\ fdt[1].slot[STDIN] = "file"
  /\ fdt[1].slot[STDOUT] = "inherited"
  /\ fdt[1].slot[STDERR] = "file"
  /\ fdt[1].extra = {}

\* Two invocations with the same Config, both run to the end of the program
\* with no call failing and no wall-time alarm
SameConfigRuns ==
  /\ cfg[1] = cfg[2]
  /\ CleanRun(1) /\ ~AlarmFired(1)
  /\ CleanRun(2) /\ ~AlarmFired(2)
SameKind ==
  /\ IsOk(result[1])
  /\ IsOk(result[2])
  /\ result[1].val.verdict = result[2].val.verdict
  /\ result[1].val.n = result[2].val.n

\* C20 (as stated): two back-to-back invocations with the same Config and the
\* same deterministic program produce verdicts of the same kind, for every
\* Config including those with clear_usage = No and a fixed instance_name.
C20_SameVerdictKind == SameConfigRuns => SameKind

\* C20 (amended): two back-to-back invocations with the same Config and the
\* same deterministic program produce verdicts of the same kind for every
\* Config with clear_usage = Yes and for every Config without a user_time
\* limit; with clear_usage = No the second run is charged the CPU time of
\* both, and where the kinds differ the second is TimeExceeded.
C20_SameKindWhenCleared ==
  SameConfigRuns =>
    /\ (cfg[1].clear_usage = "Yes" \/ ~IsSome(cfg[1].limits.user_time)) =>
         SameKind
    /\ cfg[1].clear_usage = "Yes" =>
         result[1].val.usage = result[2].val.usage
    /\ ~SameKind =>
         /\ cfg[1].clear_usage = "No"
         /\ Verdict(2, "TimeExceeded")
         /\ result[2].val.usage.user_time > result[1].val.usage.user_time

\* Twice the CPU-bound program under a user-time limit, cleared both times:
\* twice Success
C20_Witness ==
  /\ SameConfigRuns
  /\ LoopUnderLimit(1)
  /\ cfg[1].clear_usage = "Yes"
  /\ Verdict(1, "Success")
  /\ Verdict(2, "Success")

\* The supervisor's wait on the child of jail j read the record Ok(()): the
\* inner body returned without an exec
BodyReturnedOk(j) ==
  /\ IsOk(out[Inner(j)])
  /\ out[Inner(j)].val.verdict = "Success"
  /\ out[Inner(j)].val.val = Some(Ok(Unit))

Probed(j) == w[Inner(j)].pc # "done" /\ w'[Inner(j)].pc = "done"

\* C22: in the supervisor, the usage probe (cgroups::get_usage) is invoked
\* only after the sandboxed child has been reaped by waitpid, on every path
\* including the wall-time kill path: the probe never runs while the child is
\* alive or not yet reaped, the child does nothing after it, and the counters
\* it returns are those the leaf ends with.
C22_ProbeAfterReap ==
  [][\A j \in Jails :
       /\ Probed(j) =>
            /\ proc[Inner(j)] = "reaped"
            /\ w[Inner(j)].st = status[Inner(j)]
            /\ IsOk(out'[Inner(j)]) =>
                 out'[Inner(j)].val.usage = LeafUsage(cgroup[cfg[j].instance_name])
       /\ w[Inner(j)].pc = "done" =>
            /\ proc'[Inner(j)] = "reaped"
            /\ cgroup' = cgroup
            /\ out'[Inner(j)] = out[Inner(j)]]_vars

\* The probe has run on the wall-time kill path, after the reap of a killed
\* program that had used CPU time
C22_Witness ==
  /\ w[Inner(1)].pc = "done"
  /\ w[Inner(1)].sig = SIGKILL
  /\ proc[Inner(1)] = "reaped"
  /\ status[Inner(1)] = Signaled(SIGKILL)
  /\ IsOk(out[Inner(1)])
  /\ out[Inner(1)].val.verdict = "WallTimeExceeded"
  /\ out[Inner(1)].val.usage.user_time > 0

\* The units in the order the claim gives them: size in bytes and name
UnitOrder ==
  <<<<2^30, "gibibytes">>, <<2^20, "mebibytes">>, <<2^10, "kibibytes">>,
    <<10^9, "gigabytes">>, <<10^6, "megabytes">>, <<10^3, "kilobytes">>>>
\* The first unit of the order that divides b, plain bytes if none does
FirstDividing(b) ==
  LET fits == {i \in 1..Len(UnitOrder) : b % UnitOrder[i][1] = 0}
  IN  IF fits = {} THEN <<1, "bytes">>
      ELSE UnitOrder[CHOOSE i \in fits : \A k \in fits : i <= k]
\* The size of the unit a text names
SizeOf(name) ==
  IF name = "bytes" THEN 1
  ELSE UnitOrder[CHOOSE i \in 1..Len(UnitOrder) : UnitOrder[i][2] = name][1]

\* C23: Display of SpaceUsage(b) prints b/u with the name of the first unit u
\* in the order 2^30 (gibibytes), 2^20 (mebibytes), 2^10 (kibibytes), 10^9
\* (gigabytes), 10^6 (megabytes), 10^3 (kilobytes) that divides b, and plain
\* bytes if none does: binary units before decimal ones, larger before
\* smaller within each; the number printed times the unit is b exactly,
\* b = 0 included.
C23_DisplayExactUnit ==
  shown.text # <<>> =>
    LET b    == shown.bytes
        n    == shown.text[1]
        name == shown.text[2]
    IN  /\ name = FirstDividing(b)[2]
        /\ n = b \div FirstDividing(b)[1]
        /\ n * SizeOf(name) = b
        /\ b = 0 => shown.text = <<0, "gibibytes">>

\* A count that 2^10 and 10^6 both divide is printed in kibibytes
C23_Witness ==
  /\ shown.bytes = 16000000
  /\ shown.text = <<15625, "kibibytes">>

\* How often x occurs in a sequence
Count(seq, x) == Cardinality({i \in 1..Len(seq) : seq[i] = x})

\* C24: for both values of swap_redirects and every combination of configured
\* redirect paths, each standard stream is redirected at most once per run,
\* and exactly once if its path is configured: the closure holds one
\* redirect_fd per configured stream and none for the others, the child
\* enters the open() of a stream's target at most once, and a child that got
\* to its exec has opened and redirected every configured stream once, stdout
\* included whatever the swap flag.
C24_EachStreamOnce ==
  \A j \in Active : \A k \in Slots :
    LET configured == IF IsSome(RedirectPath(cfg[j], k)) THEN 1 ELSE 0
    IN  /\ Count(InnerBody(cfg[j]), Call("redirect_fd", k)) = configured
        /\ Count(opens[j], k) <= configured
        /\ Count(log[j], Call("redirect_fd", k)) <= Count(opens[j], k)
        /\ AtExec(j) =>
             /\ Count(opens[j], k) = configured
             /\ Count(log[j], Call("redirect_fd", k)) = configured

\* A child with swapped redirects at its exec: stdout opened first and once,
\* then stdin
C24_Witness ==
  /\ cfg[1].swap_redirects = "Yes"
  /\ Logged(1, "exec_command")
  /\ opens[1] = <<STDOUT, STDIN>>
  /\ Count(log[1], Call("redirect_fd", STDOUT)) = 1

\* The setup calls of the inner child of jail j that returned an error
InnerFailures(j) == {f \in failed[j] : f[1] = "inner"}

\* C25: the inner child's setup short-circuits on the first failure: once any
\* step (redirect, stack limit, cgroup join, cgroup unshare, private remount,
\* bind mount, pivot_root, mount_proc, uid/gid map, process-group move)
\* returns an error, no later step is executed and exec_command is never
\* invoked; the user command only ever starts with every configured step of
\* the closure completed, in order.
C25_ShortCircuit ==
  \A j \in Active :
    /\ Len(log[j]) <= Len(InnerBody(cfg[j]))
    /\ log[j] = SubSeq(InnerBody(cfg[j]), 1, Len(log[j]))
    /\ Cardinality(InnerFailures(j)) <= 1
    /\ \A f \in InnerFailures(j) :
         /\ Len(log[j]) < Len(InnerBody(cfg[j]))
         /\ InnerBody(cfg[j])[Len(log[j]) + 1][1] = f[2]
         /\ pos[Inner(j)] = Len(log[j]) + 1
         /\ ~Logged(j, "exec_command")
         /\ proc[Inner(j)] \in {"ret", "zombie", "reaped"}
         /\ bres[Inner(j)] = Err(ErrorOf(f[2]))
    /\ proc[Inner(j)] = "exec" =>
         /\ log[j] = InnerBody(cfg[j])
         /\ InnerFailures(j) = {}

\* A child whose pivot_root failed after both bind mounts: it has ended, with
\* nothing done after the mounts
C25_Witness ==
  /\ <<"inner", "pivot_root">> \in failed[1]
  /\ Len(cfg[1].mounts) = MaxMounts
  /\ log[1][Len(log[1])][1] = "mount_inside"
  /\ Ended(Inner(1))

====
